---------------------------- MODULE Spec2Model ----------------------------
(* A model of mcp-redis: the connection resolver, the bounded key scanner  *)
(* (scan_keys / search_keys), the type-dispatching get, and the error      *)
(* classification of src/src/error.rs.                                     *)
(*                                                                         *)
(* One tool call runs at a time.  Every store round trip (one awaited      *)
(* query_async) is one action; the store's reply is an input of the        *)
(* action, drawn from a small set.  The locals of the running call are the *)
(* variables pc .. result; Return drops them when the call is over.        *)
(*                                                                         *)
(* Spec, SpecLong and SpecResolve leave the store's contents open: any     *)
(* reply may come.  SpecStore runs the twelve operations on a store whose  *)
(* contents are known, so that a reply is what that store answers (or a    *)
(* failure); SpecRepeat makes each retrieval twice on such a store; and    *)
(* SpecMain is the startup of src/src/main.rs, which builds the registry.  *)
(* SpecCalls calls every operation on any registry, with the connection    *)
(* named, misnamed or left out; SpecRace runs get while another client     *)
(* writes to the store; SpecPair keeps two scans in flight at once, the    *)
(* executor passing from one to the other at their awaits.                 *)
EXTENDS Integers, Sequences, FiniteSets, TLC

(* ------------------------------ bounds --------------------------------- *)

\* Largest registry built (number of RedisConnection entries).
MaxConns == 2
\* Largest server-wide --scan-count tried; requested caps go one beyond it.
MaxScanCount == 2
\* Largest page (batch of keys) a single SCAN reply carries.
MaxPage == 2
\* Largest cursor value the store hands back.
MaxCursor == 2
\* Under Spec the store's enumeration is over (cursor 0) within this many pages.
MaxTrips == 3

(* --------------------------- program constants ------------------------- *)

MAX_SCAN_ITERATIONS == 1000

\* The default of --scan-count.
SCAN_COUNT_DEFAULT == 100

\* The COUNT hint sent with every SCAN.
SCAN_COUNT_HINT == 100

\* The byte validate_pattern looks for.
NUL == 0

(* ------------------------------ input sets ----------------------------- *)

\* Option<T>: None, or Some(v) written <<v>>.
None == <<>>

Some(v) == <<v>>

IsSome(o) == o /= None

Unwrap(o) == o[1]

unwrap_or(o, d) == IF IsSome(o) THEN Unwrap(o) ELSE d

\* Connection names given to registry entries, and one more name that no entry has.
Names == {"a", "b"}

RequestNames == Names \cup {"c"}

\* Key names the store may hand back.
Keys == {"k1", "k2"}

\* Patterns, as byte strings: "*" (42), "k*" (107 42), "k\0*" and "\0".
DefaultPattern == <<42>>

Patterns == {<<107, 42>>, <<107, NUL, 42>>, <<NUL>>}

\* Type names a TYPE reply may carry ("stream" stands for any other type).
KnownTypes == {"string", "list", "set", "zset", "hash"}

Types == KnownTypes \cup {"none", "stream"}

\* Type names tried in the answers to a pipeline of TYPE commands.
PipelineTypes == {"string", "hash"}

\* Errors the redis client may report for a round trip.
RedisErrors == {"io"}

SeqsUpTo(S, n) == UNION {[1..k -> S] : k \in 0..n}

Min(a, b) == IF a <= b THEN a ELSE b

(* --------------------------- src/src/error.rs -------------------------- *)

\* enum McpRedisError
Redis(e) == [variant |-> "Redis", arg |-> e]

ConnectionNotFound(n) == [variant |-> "ConnectionNotFound", arg |-> n]

AmbiguousConnection == [variant |-> "AmbiguousConnection", arg |-> ""]

ReadOnly(s) == [variant |-> "ReadOnly", arg |-> s]

Other(s) == [variant |-> "Other", arg |-> s]

McpRedisError ==
    {Redis(e) : e \in RedisErrors}
        \cup {ConnectionNotFound(n) : n \in RequestNames}
        \cup {AmbiguousConnection}
        \cup {ReadOnly(s) : s \in {"'set' requires --allow-write flag"}}
        \cup {Other(s) : s \in {"Pattern must not contain null bytes"}}

\* The thiserror Display of each variant: the format string and its argument.
to_string(e) ==
    CASE e.variant = "Redis" -> <<"Redis error: ", e.arg>>
      [] e.variant = "ConnectionNotFound" -> <<"Connection not found: ", e.arg>>
      [] e.variant = "AmbiguousConnection" ->
            <<"Ambiguous connection: multiple Redis instances connected, specify 'connection' parameter", "">>
      [] e.variant = "ReadOnly" -> <<"Write operation rejected: ", e.arg>>
      [] e.variant = "Other" -> <<"", e.arg>>

\* ErrorData::invalid_params / ErrorData::internal_error
invalid_params(msg) == [code |-> "invalid_params", message |-> msg]

internal_error(msg) == [code |-> "internal_error", message |-> msg]

\* to_mcp_error with the ReadOnly arm merged into the internal one.
to_mcp_error_readonly_internal(e) ==
    CASE e.variant \in {"ConnectionNotFound", "AmbiguousConnection"} ->
            invalid_params(to_string(e))
      [] e.variant \in {"Redis", "Other", "ReadOnly"} -> internal_error(to_string(e))

to_mcp_error(e) ==
    CASE e.variant \in {"ConnectionNotFound", "AmbiguousConnection"} ->
            invalid_params(to_string(e))
      [] e.variant = "ReadOnly" -> invalid_params(to_string(e))
      [] e.variant \in {"Redis", "Other"} -> internal_error(to_string(e))

(* --------------------------- src/src/server.rs ------------------------- *)

Ok(v) == [ok |-> TRUE, val |-> v]

Err(e) == [ok |-> FALSE, err |-> e]

\* The index of the last entry named n; 0 when there is none.
find_last(conns, n) ==
    IF \E i \in 1..Len(conns) : conns[i] = n
    THEN CHOOSE i \in 1..Len(conns) :
            conns[i] = n /\ \A j \in (i + 1)..Len(conns) : conns[j] /= n
    ELSE 0

\* The index of the first entry named n; 0 when there is none (Iterator::find).
find(conns, n) ==
    IF \E i \in 1..Len(conns) : conns[i] = n
    THEN CHOOSE i \in 1..Len(conns) :
            conns[i] = n /\ \A j \in 1..(i - 1) : conns[j] /= n
    ELSE 0

\* &self.connections[i], i counted from 0: the entry, or a panic when out of bounds.
index(conns, i) ==
    IF i < Len(conns) THEN Ok(i + 1) ELSE Err([variant |-> "panic", arg |-> ""])

\* resolve falling back to the only entry when the name is not found.
resolve_name_fallback(conns, name) ==
    IF IsSome(name) /\ find(conns, Unwrap(name)) /= 0
    THEN Ok(find(conns, Unwrap(name)))
    ELSE IF Len(conns) = 1
         THEN index(conns, 0)
         ELSE IF IsSome(name)
              THEN Err(ConnectionNotFound(Unwrap(name)))
              ELSE Err(AmbiguousConnection)

\* resolve without the single-entry arm.
resolve_no_default(conns, name) ==
    IF IsSome(name)
    THEN IF find(conns, Unwrap(name)) /= 0
         THEN Ok(find(conns, Unwrap(name)))
         ELSE Err(ConnectionNotFound(Unwrap(name)))
    ELSE Err(AmbiguousConnection)

\* resolve with the single-entry guard written len <= 1.
resolve_default_le_one(conns, name) ==
    IF IsSome(name)
    THEN IF find(conns, Unwrap(name)) /= 0
         THEN Ok(find(conns, Unwrap(name)))
         ELSE Err(ConnectionNotFound(Unwrap(name)))
    ELSE IF Len(conns) <= 1
         THEN index(conns, 0)
         ELSE Err(AmbiguousConnection)

\* McpRedisServer::resolve: Ok(index of the entry, from 1) or Err(McpRedisError).
resolve(conns, name) ==
    IF IsSome(name)
    THEN IF find(conns, Unwrap(name)) /= 0
         THEN Ok(find(conns, Unwrap(name)))
         ELSE Err(ConnectionNotFound(Unwrap(name)))
    ELSE IF Len(conns) = 1
         THEN index(conns, 0)
         ELSE Err(AmbiguousConnection)

contains(pattern, byte) == \E i \in 1..Len(pattern) : pattern[i] = byte

\* validate_pattern that accepts everything.
validate_pattern_accept_all(pattern) == Ok(TRUE)

validate_pattern(pattern) ==
    IF contains(pattern, NUL)
    THEN Err(Other("Pattern must not contain null bytes"))
    ELSE Ok(TRUE)

\* McpRedisServer::err
err(e) == to_mcp_error(e)

\* max_keys without the server-side ceiling.
max_keys_of_uncapped(count, sc) == unwrap_or(count, sc)

\* min(params.count.unwrap_or(self.scan_count), self.scan_count)
max_keys_of(count, sc) == Min(unwrap_or(count, sc), sc)

\* The list left as the loop built it.
truncate_none(s, n) == s

\* Vec::truncate
truncate(s, n) == SubSeq(s, 1, Min(Len(s), n))


\* The retrieval arms with the zset arm sending ZRANGE without WITHSCORES.
retrieval_cmd_no_scores(t) ==
    CASE t = "string" -> [name |-> "GET", args |-> <<>>]
      [] t = "list" -> [name |-> "LRANGE", args |-> <<"0", "-1">>]
      [] t = "set" -> [name |-> "SMEMBERS", args |-> <<>>]
      [] t = "zset" -> [name |-> "ZRANGE", args |-> <<"0", "-1">>]
      [] t = "hash" -> [name |-> "HGETALL", args |-> <<>>]

\* The five retrieval arms of do_get's match: the command sent for a key type.
retrieval_cmd(t) ==
    CASE t = "string" -> [name |-> "GET", args |-> <<>>]
      [] t = "list" -> [name |-> "LRANGE", args |-> <<"0", "-1">>]
      [] t = "set" -> [name |-> "SMEMBERS", args |-> <<>>]
      [] t = "zset" -> [name |-> "ZRANGE", args |-> <<"0", "-1", "WITHSCORES">>]
      [] t = "hash" -> [name |-> "HGETALL", args |-> <<>>]

\* The match without its "none" arm.
get_arm_no_absent(t) ==
    IF t \in {"string", "list", "set", "zset", "hash"} THEN "retrieve" ELSE "other"

\* Which arm of do_get's match a reported type takes.
get_arm(t) ==
    IF t \in {"string", "list", "set", "zset", "hash"} THEN "retrieve"
    ELSE IF t = "none" THEN "absent"
    ELSE "other"

\* Values a retrieval command's typed reply may carry, per key type:
\* String, Vec<String>, Vec<(String, f64)>, Vec<(String, String)>.
Replies(t) ==
    CASE t = "string" -> {"v"}
      [] t = "list" -> {<<>>, <<"x", "y">>}
      [] t = "set" -> {<<>>, <<"y", "x">>}
      [] t = "zset" -> {<<>>, <<<<"m", 1>>, <<"n", 2>>>>}
      [] t = "hash" -> {<<>>, <<<<"f", "v">>, <<"g", "w">>>>}

\* The value each arm builds from the reply (serde_json).
normalize(t, v) ==
    CASE t \in {"string", "list", "set"} -> v
      [] t = "zset" -> [i \in 1..Len(v) |-> [member |-> v[i][1], score |-> v[i][2]]]
      [] t = "hash" ->
            [f \in {v[i][1] : i \in 1..Len(v)} |->
                LET last == CHOOSE i \in 1..Len(v) :
                        v[i][1] = f /\ \A j \in (i + 1)..Len(v) : v[j][1] /= f
                IN v[last][2]]

(* ------------------------------ the store ------------------------------ *)

\* What a store holds under a key: the key's type and, in the field of that
\* type, its value; "none" is the type of a key that does not exist.
Absent == [type |-> "none", str |-> "", items |-> <<>>, scored |-> <<>>, pairs |-> <<>>]

\* The value held, in the shape the type's retrieval command replies with.
val(c) ==
    CASE c.type = "string" -> c.str
      [] c.type \in {"list", "set"} -> c.items
      [] c.type = "zset" -> c.scored
      [] c.type = "hash" -> c.pairs
      [] OTHER -> <<>>

\* What a command leaves in the store s.  The commands of ReadCommands leave
\* it as it was; the others are here for their effect to be known.
execute(name, key, s) ==
    CASE name = "DEL" -> [k \in DOMAIN s |-> IF k = key THEN Absent ELSE s[k]]
      [] name = "FLUSHDB" -> [k \in DOMAIN s |-> Absent]
      [] name = "LPOP" ->
            [k \in DOMAIN s |->
                IF k = key /\ s[k].type = "list"
                THEN IF Len(s[k].items) = 1 THEN Absent
                     ELSE [s[k] EXCEPT !.items = Tail(@)]
                ELSE s[k]]
      [] OTHER -> s

\* The contents tried under a key: nothing, a string, a list, a set (in the
\* store's own order), an ordered set (in score order), a hash with the
\* fields "f" (102) and "g" (103), and a stream.
Contents ==
    {Absent,
     [Absent EXCEPT !.type = "string", !.str = "v"],
     [Absent EXCEPT !.type = "list", !.items = <<"x", "y">>],
     [Absent EXCEPT !.type = "set", !.items = <<"y", "x">>],
     [Absent EXCEPT !.type = "zset", !.scored = <<<<"m", 1>>, <<"n", 2>>>>],
     [Absent EXCEPT !.type = "hash", !.pairs = <<<<<<102>>, "v">>, <<<<103>>, "w">>>>],
     [Absent EXCEPT !.type = "stream"]}

\* The stores tried: anything under "k1"; nothing or a string under "k2".
Stores == {s \in [Keys -> Contents] : s["k2"].type \in {"none", "string"}}

\* Key names as byte strings: "k1" and "k2".
Spelling(k) == IF k = "k1" THEN <<107, 49>> ELSE <<107, 50>>

\* Glob matching of SCAN's MATCH, for patterns of literal bytes and "*" (42).
RECURSIVE glob(_, _)
glob(p, t) ==
    IF p = <<>> THEN t = <<>>
    ELSE IF Head(p) = 42
         THEN glob(Tail(p), t) \/ (t /= <<>> /\ glob(p, Tail(t)))
         ELSE t /= <<>> /\ Head(t) = Head(p) /\ glob(Tail(p), Tail(t))

\* The keys of s a SCAN with MATCH pat enumerates.
Matching(s, pat) == {k \in DOMAIN s : s[k].type /= "none" /\ glob(pat, Spelling(k))}

Range(q) == {q[i] : i \in 1..Len(q)}

\* LRANGE / ZRANGE by index: both ends inclusive, negative indexes counted
\* from the end, out-of-range ends clipped.
lrange(l, start, stop) ==
    LET n == Len(l)
        a0 == IF start < 0 THEN n + start ELSE start
        a == IF a0 < 0 THEN 0 ELSE a0
        b0 == IF stop < 0 THEN n + stop ELSE stop
        b == IF b0 >= n THEN n - 1 ELSE b0
    IN  IF a > b \/ a >= n THEN <<>> ELSE SubSeq(l, a + 1, b + 1)

\* HMGET: per field asked, its value or nil.
hmget(pairs, fields) ==
    [i \in 1..Len(fields) |->
        IF \E j \in 1..Len(pairs) : pairs[j][1] = fields[i]
        THEN Some(pairs[CHOOSE j \in 1..Len(pairs) : pairs[j][1] = fields[i]][2])
        ELSE None]

\* The reply a store holding s gives, when it answers, to ...
\* ... TYPE k
type_answer(s, k) == Ok(s[k].type)

\* ... the retrieval command get sends for a key it believes of type t
value_answer(s, k, t) ==
    IF s[k].type = t
    THEN Ok(val(s[k]))
    ELSE IF s[k].type /= "none" THEN Err("WRONGTYPE")
    ELSE IF t = "string" THEN Err("nil") ELSE Ok(<<>>)

\* ... LRANGE k start stop
lrange_answer(s, k, start, stop) ==
    IF s[k].type = "list" THEN Ok(lrange(s[k].items, start, stop))
    ELSE IF s[k].type = "none" THEN Ok(<<>>) ELSE Err("WRONGTYPE")

\* ... SMEMBERS k
smembers_answer(s, k) ==
    IF s[k].type = "set" THEN Ok(s[k].items)
    ELSE IF s[k].type = "none" THEN Ok(<<>>) ELSE Err("WRONGTYPE")

\* ... ZRANGE k 0 stop WITHSCORES
zrange_answer(s, k, stop) ==
    IF s[k].type = "zset" THEN Ok(lrange(s[k].scored, 0, stop))
    ELSE IF s[k].type = "none" THEN Ok(<<>>) ELSE Err("WRONGTYPE")

\* ... HMGET k fields
hmget_answer(s, k, fields) ==
    IF s[k].type = "hash" THEN Ok(hmget(s[k].pairs, fields))
    ELSE IF s[k].type = "none" THEN Ok([i \in 1..Len(fields) |-> None])
    ELSE Err("WRONGTYPE")

\* ... DBSIZE
dbsize_answer(s) == Ok(Cardinality({k \in DOMAIN s : s[k].type /= "none"}))

\* ... TTL k: -2 for no key, -1 for no expiry, else the seconds left
ttl_answers(s, k) == IF s[k].type = "none" THEN {Ok(-2)} ELSE {Ok(-1), Ok(5)}

\* ... OBJECT ENCODING k: nil (no String) for no key
encoding_answer(s, k) == IF s[k].type = "none" THEN Err("nil") ELSE Ok("raw")

\* ... MEMORY USAGE k: nil (no i64) for no key
memory_answer(s, k) == IF s[k].type = "none" THEN Err("nil") ELSE Ok(56)

(* -------------------------------- state -------------------------------- *)

VARIABLES
    connections,    \* McpRedisServer.connections: the entries' names, in order
    allow_write,    \* McpRedisServer.allow_write
    scan_count,     \* McpRedisServer.scan_count
    pc,             \* where the running call is: idle, a loop or await, done
    op,             \* the operation running
    params,         \* its parameter struct
    entry,          \* index of the resolved entry (0: none)
    pattern,        \* let pattern
    max_keys,       \* let max_keys
    keys,           \* let mut keys
    cursor,         \* let mut cursor
    iterations,     \* let mut iterations
    types,          \* let types (do_search_keys)
    key_type,       \* let key_type
    ttl,            \* let ttl (do_key_info)
    encoding,       \* let encoding (do_key_info), a Result
    memory,         \* let memory (do_key_info), a Result
    issued,         \* store round trips this call has made, per command
    last_cmd,       \* the last command sent, where it went, and a SCAN's answer
    result,         \* what the call returned
    store,          \* the contents of the backing store, per key
    earlier,        \* the call the caller made just before and is repeating
    all_urls,       \* the addresses the process was started with
    waiting         \* the locals of the other call in flight, parked at an await

vars ==
    <<connections, allow_write, scan_count, pc, op, params, entry, pattern,
      max_keys, keys, cursor, iterations, types, key_type, ttl, encoding, memory,
      issued, last_cmd, result, store, earlier, all_urls, waiting>>

server == <<connections, allow_write, scan_count>>

scan_locals == <<pattern, max_keys, keys, cursor, iterations, types>>

key_info_locals == <<ttl, encoding, memory>>

\* What lies outside the server and the running call.
outside == <<earlier, all_urls, waiting>>

\* The commands the operations send (a pipeline counts as one round trip).
ReadCommands ==
    {"SCAN", "TYPE", "GET", "LRANGE", "SMEMBERS", "ZRANGE", "HGETALL", "PIPELINE",
     "INFO", "TTL", "OBJECT", "MEMORY", "DBSIZE", "HMGET", "SLOWLOG", "CLIENT"}

\* Commands that change what a store holds.
WriteCommands == {"DEL", "LPOP", "FLUSHDB"}

Commands == ReadCommands \cup WriteCommands

NoParams ==
    [connection |-> None, pattern |-> None, count |-> None, key |-> "", error |-> None,
     section |-> None, fields |-> <<>>, start |-> None, stop |-> None]

NoCmd ==
    [conn |-> 0, name |-> "", key |-> "", cursor |-> 0, pattern |-> <<>>, hint |-> 0,
     args |-> <<>>, failed |-> FALSE, next_cursor |-> 0, fetched |-> <<>>]

NoResult == [ok |-> FALSE, kind |-> "none"]

NoneIssued == [c \in Commands |-> 0]

RECURSIVE Total(_, _)
Total(f, S) ==
    IF S = {} THEN 0
    ELSE LET c == CHOOSE x \in S : TRUE IN f[c] + Total(f, S \ {c})

RoundTrips == Total(issued, Commands)

\* No earlier call is being repeated.
NoCall == [op |-> "none", params |-> NoParams, result |-> NoResult]

\* The locals of a call, as they stand at one of its awaits.
frame ==
    [pc |-> pc, op |-> op, params |-> params, entry |-> entry, pattern |-> pattern,
     max_keys |-> max_keys, keys |-> keys, cursor |-> cursor, iterations |-> iterations,
     types |-> types, key_type |-> key_type, ttl |-> ttl, encoding |-> encoding,
     memory |-> memory, issued |-> issued, last_cmd |-> last_cmd, result |-> result]

\* No other call is in flight.
NoFrame ==
    [pc |-> "idle", op |-> "none", params |-> NoParams, entry |-> 0, pattern |-> <<>>,
     max_keys |-> 0, keys |-> <<>>, cursor |-> 0, iterations |-> 0,
     types |-> <<>>, key_type |-> "", ttl |-> 0, encoding |-> [ok |-> TRUE, val |-> ""],
     memory |-> [ok |-> TRUE, val |-> 0], issued |-> NoneIssued, last_cmd |-> NoCmd,
     result |-> NoResult]

\* A store the model tracks no key of.
Untracked == [k \in {} |-> Absent]

\* The server built directly from connections, as the tests build it.
NoUrls == <<>>

\* Err(ErrorData) of a call.
Failure(data) == [ok |-> FALSE, kind |-> "error", error |-> data]

\* A thread panic (index out of bounds).
Panic == [ok |-> FALSE, kind |-> "panic"]

\* One round trip: the command goes to the resolved entry's store, which
\* executes it and replies.
send(name, key, args, reply) ==
    /\ issued' = [issued EXCEPT ![name] = @ + 1]
    /\ last_cmd' = [NoCmd EXCEPT !.conn = entry, !.name = name, !.key = key, !.args = args,
                                 !.failed = ~reply.ok]
    /\ store' = execute(name, key, store)

\* No call is running: every local at its blank value.
blank_locals ==
    /\ op = "none"
    /\ params = NoParams
    /\ entry = 0
    /\ pattern = <<>>
    /\ max_keys = 0
    /\ keys = <<>>
    /\ cursor = 0
    /\ iterations = 0
    /\ types = <<>>
    /\ key_type = ""
    /\ ttl = 0
    /\ encoding = Ok("")
    /\ memory = Ok(0)
    /\ issued = NoneIssued
    /\ last_cmd = NoCmd
    /\ result = NoResult

\* No call has run yet.
Blank == blank_locals /\ earlier = NoCall /\ waiting = NoFrame

\* The server just built, waiting for its first call.
Quiet == pc = "idle" /\ Blank

\* McpRedisServer::new for two instances named apart, with any flag and cap.
Init ==
    /\ connections = <<"a", "b">>
    /\ allow_write \in BOOLEAN
    /\ scan_count \in 0..MaxScanCount
    /\ Quiet
    /\ store = Untracked
    /\ all_urls = NoUrls

\* McpRedisServer::new with any registry (empty, names repeated or not) and flag.
InitResolve ==
    /\ connections \in SeqsUpTo(Names, MaxConns)
    /\ allow_write \in BOOLEAN
    /\ scan_count = SCAN_COUNT_DEFAULT
    /\ Quiet
    /\ store = Untracked
    /\ all_urls = NoUrls

\* McpRedisServer::new(vec![conn], false, n) as the tests build it, n >= 1.
InitLong ==
    /\ connections = <<"a">>
    /\ allow_write = FALSE
    /\ scan_count \in 1..MaxScanCount
    /\ Quiet
    /\ store = Untracked
    /\ all_urls = NoUrls

(* ------------------------------ operations ----------------------------- *)

\* The `?` on self.resolve(..).map_err(|e| self.err(e)): the call is over, nothing sent.
fail_resolve(o, p, r) ==
    /\ pc' = "done"
    /\ op' = o
    /\ params' = p
    /\ result' = IF r.err.variant = "panic" THEN Panic ELSE Failure(err(r.err))
    /\ UNCHANGED <<server, outside, key_info_locals, entry, scan_locals, key_type, issued, last_cmd, store>>

\* The head that validates the pattern before it resolves the connection.
scan_head_validate_first(o, p) ==
    LET r == resolve(connections, p.connection)
        pat == unwrap_or(p.pattern, DefaultPattern)
        v == validate_pattern(pat)
    IN  /\ pc = "idle"
        /\ IF ~v.ok
           THEN fail_resolve(o, p, v)
           ELSE IF ~r.ok
                THEN fail_resolve(o, p, r)
                ELSE /\ op' = o
                     /\ params' = p
                     /\ entry' = r.val
                     /\ pattern' = pat
                     /\ pc' = "scan"
                     /\ max_keys' = max_keys_of(p.count, scan_count)
                     /\ keys' = <<>>
                     /\ cursor' = 0
                     /\ iterations' = 0
                     /\ types' = <<>>
                     /\ UNCHANGED <<server, outside, key_info_locals, key_type, issued,
                                    last_cmd, store, result>>

\* The head of do_scan_keys / do_search_keys, up to the first SCAN: resolve,
\* default and validate the pattern, compute max_keys, initialise the loop.
scan_head(o, p) ==
    LET r == resolve(connections, p.connection)
        pat == unwrap_or(p.pattern, DefaultPattern)
        v == validate_pattern(pat)
    IN  /\ pc = "idle"
        /\ IF ~r.ok
           THEN fail_resolve(o, p, r)
           ELSE /\ op' = o
                /\ params' = p
                /\ entry' = r.val
                /\ pattern' = pat
                /\ key_type' = key_type
                /\ UNCHANGED <<server, outside, key_info_locals, issued, last_cmd, store>>
                /\ IF ~v.ok
                   THEN /\ pc' = "done"
                        /\ result' = Failure(err(v.err))
                        /\ UNCHANGED <<max_keys, keys, cursor, iterations, types>>
                   ELSE /\ pc' = "scan"
                        /\ max_keys' = max_keys_of(p.count, scan_count)
                        /\ keys' = <<>>
                        /\ cursor' = 0
                        /\ iterations' = 0
                        /\ types' = <<>>
                        /\ result' = result

ScanParams ==
    [connection : {None} \cup {Some(n) : n \in RequestNames},
     pattern : {None} \cup {Some(x) : x \in Patterns},
     count : {None} \cup {Some(c) : c \in 0..(MaxScanCount + 1)},
     key : {""},
     error : {None},
     section : {None},
     fields : {<<>>},
     start : {None},
     stop : {None}]

\* What the store may answer to one SCAN: an error, or (next_cursor, batch).
ScanReplies ==
    {Err(e) : e \in RedisErrors}
        \cup {Ok(<<c, b>>) : c \in 0..MaxCursor, b \in SeqsUpTo(Keys, MaxPage)}

\* The answers of a store whose enumeration is over within MaxTrips pages, to
\* the SCAN that follows `it` earlier ones.
ShortScanReplies(it) ==
    {reply \in ScanReplies : ~reply.ok \/ it + 1 < MaxTrips \/ reply.val[1] = 0}

\* The calls SpecLong makes: the test's parameters, connection and pattern left out.
LongParams ==
    [connection : {None},
     pattern : {None},
     count : {None},
     key : {""},
     error : {None},
     section : {None},
     fields : {<<>>},
     start : {None},
     stop : {None}]

\* The exit test that does not look at the cursor.
loop_break_no_origin(cur, ks, mk, it) == Len(ks) >= mk \/ it >= MAX_SCAN_ITERATIONS

\* The exit test without the iteration ceiling.
loop_break_no_ceiling(cur, ks, mk, it) == cur = 0 \/ Len(ks) >= mk

\* The loop's exit test.
loop_break(cur, ks, mk, it) ==
    cur = 0 \/ Len(ks) >= mk \/ it >= MAX_SCAN_ITERATIONS

\* One SCAN round trip of either loop: send with the current cursor, take the
\* reply (next_cursor, batch); an error ends the call.  The command is kept
\* with the cursor answered and with all the keys the call has been handed
\* once this answer is in: those gathered before, then the batch.
scan_send(reply) ==
    /\ issued' = [issued EXCEPT !["SCAN"] = @ + 1]
    /\ last_cmd' = [NoCmd EXCEPT !.conn = entry, !.name = "SCAN", !.cursor = cursor,
                                 !.pattern = pattern, !.hint = SCAN_COUNT_HINT,
                                 !.args = <<"MATCH", "COUNT">>,
                                 !.failed = ~reply.ok,
                                 !.next_cursor = IF reply.ok THEN reply.val[1] ELSE 0,
                                 !.fetched = IF reply.ok THEN keys \o reply.val[2] ELSE keys]
    /\ store' = execute("SCAN", "", store)

\* A failed page answered with what the earlier pages gave.
scan_failed_partial(reply) ==
    /\ pc' = "done"
    /\ result' = [ok |-> TRUE, kind |-> "scan", pattern |-> pattern, keys |-> keys,
                  count |-> Len(keys)]
    /\ UNCHANGED <<keys, cursor, iterations, types>>

\* The `?` on a page's query_async: the store's error ends the call.
scan_failed(reply) ==
    /\ pc' = "done"
    /\ result' = Failure(err(Redis(reply.err)))
    /\ UNCHANGED <<keys, cursor, iterations, types>>

\* The result with its keys in the reverse of the order fetched.
scan_result_reversed(pat, ks) ==
    [ok |-> TRUE, kind |-> "scan", pattern |-> pat,
     keys |-> [i \in 1..Len(ks) |-> ks[Len(ks) + 1 - i]], count |-> Len(ks)]

scan_result(pat, ks) == [ok |-> TRUE, kind |-> "scan", pattern |-> pat, keys |-> ks, count |-> Len(ks)]

search_result(pat, rs) == [ok |-> TRUE, kind |-> "search", pattern |-> pat, keys |-> rs, count |-> Len(rs)]

do_scan_keys_start(p) == scan_head("scan_keys", p)

\* One turn of do_scan_keys' loop, and on leaving it the truncation and the result.
do_scan_keys_page(reply) ==
    /\ pc = "scan"
    /\ op = "scan_keys"
    /\ scan_send(reply)
    /\ UNCHANGED <<server, outside, key_info_locals, op, params, entry, pattern, max_keys, types, key_type>>
    /\ IF ~reply.ok
       THEN scan_failed(reply)
       ELSE LET ks == keys \o reply.val[2]
                cur == reply.val[1]
                it == iterations + 1
            IN  /\ cursor' = cur
                /\ iterations' = it
                /\ IF loop_break(cur, ks, max_keys, it)
                   THEN /\ keys' = truncate(ks, max_keys)
                        /\ pc' = "done"
                        /\ result' = scan_result(pattern, truncate(ks, max_keys))
                   ELSE /\ keys' = ks
                        /\ pc' = "scan"
                        /\ result' = result

\* The lookup that is made for an empty list too.
is_empty_never(ks) == FALSE

\* Vec::is_empty, the test that guards the type lookups.
is_empty(ks) == ks = <<>>

do_search_keys_start(p) == scan_head("search_keys", p)

\* One turn of do_search_keys' loop; on leaving it the truncation, and with no
\* key left the empty result.
do_search_keys_page(reply) ==
    /\ pc = "scan"
    /\ op = "search_keys"
    /\ scan_send(reply)
    /\ UNCHANGED <<server, outside, key_info_locals, op, params, entry, pattern, max_keys, types, key_type>>
    /\ IF ~reply.ok
       THEN scan_failed(reply)
       ELSE LET ks == keys \o reply.val[2]
                cur == reply.val[1]
                it == iterations + 1
            IN  /\ cursor' = cur
                /\ iterations' = it
                /\ IF loop_break(cur, ks, max_keys, it)
                   THEN /\ keys' = truncate(ks, max_keys)
                        /\ IF is_empty(truncate(ks, max_keys))
                           THEN /\ pc' = "done"
                                /\ result' = search_result(pattern, <<>>)
                           ELSE /\ pc' = "types"
                                /\ result' = result
                   ELSE /\ keys' = ks
                        /\ pc' = "scan"
                        /\ result' = result

\* What the store may answer to a pipeline of n TYPE commands.
PipelineReplies(n) ==
    {Err(e) : e \in RedisErrors} \cup {Ok(ts) : ts \in [1..n -> PipelineTypes]}

\* The pipeline answers SpecLong tries: an error, or every key a string.
LongPipelineReplies(n) ==
    {Err(e) : e \in RedisErrors} \cup {Ok([i \in 1..n |-> "string"])}

\* Result::unwrap_or_else: the value, or the fallback on any error.
unwrap_or_else(reply, fallback) == IF reply.ok THEN reply.val ELSE fallback

\* The fallback that propagates nothing and annotates nothing.
unknown_none(n) == <<>>

\* vec!["unknown".to_string(); keys.len()]
unknown(n) == [i \in 1..n |-> "unknown"]

\* zip pairing each key with the answer of the key after it.
zip_shifted(ks, ts) ==
    [i \in 1..Min(Len(ks), Len(ts)) |-> [key |-> ks[i], type |-> ts[(i % Len(ts)) + 1]]]

\* keys.iter().zip(types.iter())
zip(ks, ts) == [i \in 1..Min(Len(ks), Len(ts)) |-> [key |-> ks[i], type |-> ts[i]]]

\* The pipelined TYPE lookups of do_search_keys, and its result.
do_search_keys_types(reply) ==
    /\ pc = "types"
    /\ op = "search_keys"
    /\ send("PIPELINE", "", [i \in 1..Len(keys) |-> "TYPE"], reply)
    /\ types' = unwrap_or_else(reply, unknown(Len(keys)))
    /\ result' = search_result(pattern, zip(keys, types'))
    /\ pc' = "done"
    /\ UNCHANGED <<server, outside, key_info_locals, op, params, entry, pattern, max_keys, keys, cursor,
                   iterations, key_type>>

KeyParams ==
    [connection : {None} \cup {Some(n) : n \in RequestNames},
     pattern : {None},
     count : {None},
     key : Keys,
     error : {None},
     section : {None},
     fields : {<<>>},
     start : {None},
     stop : {None}]

\* What the store may answer to TYPE.
TypeReplies == {Err(e) : e \in RedisErrors} \cup {Ok(t) : t \in Types}

\* What the store may answer to the retrieval command of a key of type t.
ValueReplies(t) == {Err(e) : e \in RedisErrors} \cup {Ok(v) : v \in Replies(t)}

absent_result(k) == [ok |-> TRUE, kind |-> "absent", error |-> "Key does not exist", key |-> k]

\* The payload tagged string whatever the type looked up.
value_result_string(k, t, v) == [ok |-> TRUE, kind |-> "value", key |-> k, type |-> "string", value |-> v]

value_result(k, t, v) == [ok |-> TRUE, kind |-> "value", key |-> k, type |-> t, value |-> v]

unsupported(t) == [type |-> t, note |-> "Unsupported type"]

\* do_get up to its first await: resolve the connection.
do_get_start(p) ==
    LET r == resolve(connections, p.connection)
    IN  /\ pc = "idle"
        /\ IF ~r.ok
           THEN fail_resolve("get", p, r)
           ELSE /\ pc' = "get_type"
                /\ op' = "get"
                /\ params' = p
                /\ entry' = r.val
                /\ UNCHANGED <<server, outside, key_info_locals, scan_locals, key_type, issued, last_cmd, store, result>>

\* The TYPE round trip of do_get and the match on its answer, up to the next await.
do_get_type(reply) ==
    /\ pc = "get_type"
    /\ send("TYPE", params.key, <<>>, reply)
    /\ UNCHANGED <<server, outside, key_info_locals, op, params, entry, scan_locals>>
    /\ IF ~reply.ok
       THEN /\ pc' = "done"
            /\ result' = Failure(err(Redis(reply.err)))
            /\ key_type' = key_type
       ELSE /\ key_type' = reply.val
            /\ CASE get_arm(reply.val) = "retrieve" ->
                        /\ pc' = "get_value"
                        /\ result' = result
                 [] get_arm(reply.val) = "absent" ->
                        /\ pc' = "done"
                        /\ result' = absent_result(params.key)
                 [] get_arm(reply.val) = "other" ->
                        /\ pc' = "done"
                        /\ result' = value_result(params.key, reply.val, unsupported(reply.val))

\* The retrieval round trip of do_get, for the type TYPE reported, and the result.
do_get_value(reply) ==
    /\ pc = "get_value"
    /\ send(retrieval_cmd(key_type).name, params.key, retrieval_cmd(key_type).args, reply)
    /\ pc' = "done"
    /\ result' = IF ~reply.ok
                 THEN Failure(err(Redis(reply.err)))
                 ELSE value_result(params.key, key_type, normalize(key_type, reply.val))
    /\ UNCHANGED <<server, outside, key_info_locals, op, params, entry, scan_locals, key_type>>

\* The head of an operation up to its first await: resolve the connection.
start(o, p, next) ==
    LET r == resolve(connections, p.connection)
    IN  /\ pc = "idle"
        /\ IF ~r.ok
           THEN fail_resolve(o, p, r)
           ELSE /\ pc' = next
                /\ op' = o
                /\ params' = p
                /\ entry' = r.val
                /\ UNCHANGED <<server, outside, key_info_locals, scan_locals, key_type,
                               issued, last_cmd, store, result>>

\* What a round trip that ends its call leaves alone.
call_frame == <<server, outside, key_info_locals, op, params, entry, scan_locals, key_type>>

\* The `?` on a query_async, or the payload built from the reply.
or_failure(reply, payload) == IF ~reply.ok THEN Failure(err(Redis(reply.err))) ELSE payload

(* list_connections *)

\* do_list_connections: the registry's names, no store involved.
do_list_connections ==
    /\ pc = "idle"
    /\ pc' = "done"
    /\ op' = "list_connections"
    /\ result' = [ok |-> TRUE, kind |-> "connections",
                  connections |-> [i \in 1..Len(connections) |-> [name |-> connections[i]]]]
    /\ UNCHANGED <<server, outside, key_info_locals, params, entry, scan_locals, key_type,
                   issued, last_cmd, store>>

(* info *)

\* Calls that leave the connection out, and one naming a connection nobody has.
ConnectionParams == {NoParams, [NoParams EXCEPT !.connection = Some("c")]}

InfoParams == {[NoParams EXCEPT !.section = x] : x \in {None, Some("memory")}}

InfoReplies == {Err(e) : e \in RedisErrors} \cup {Ok("# Memory")}

do_info_start(p) == start("info", p, "info")

\* INFO, with the section when one is given.
do_info(reply) ==
    /\ pc = "info"
    /\ send("INFO", "", IF IsSome(params.section) THEN <<Unwrap(params.section)>> ELSE <<>>,
            reply)
    /\ pc' = "done"
    /\ result' = or_failure(reply, [ok |-> TRUE, kind |-> "info", text |-> reply.val])
    /\ UNCHANGED call_frame

(* dbsize *)

\* The command that empties the database.
dbsize_cmd_flushdb == "FLUSHDB"

\* The command do_dbsize sends.
dbsize_cmd == "DBSIZE"

do_dbsize_start(p) == start("dbsize", p, "dbsize")

do_dbsize(reply) ==
    /\ pc = "dbsize"
    /\ send(dbsize_cmd, "", <<>>, reply)
    /\ pc' = "done"
    /\ result' = or_failure(reply, [ok |-> TRUE, kind |-> "dbsize", dbsize |-> reply.val])
    /\ UNCHANGED call_frame

(* key_info *)

StoreKeyParams == {[NoParams EXCEPT !.key = k] : k \in Keys}

\* The "ttl" text: "no expiry", "key not found", or format!("{}s", ttl).
ttl_text(t) ==
    IF t = -1 THEN [n |-> 0, text |-> "no expiry"]
    ELSE IF t = -2 THEN [n |-> 0, text |-> "key not found"]
    ELSE [n |-> t, text |-> "s"]

key_info_result(k, t, l, e, m) ==
    [ok |-> TRUE, kind |-> "key_info", key |-> k, type |-> t, ttl |-> ttl_text(l),
     encoding |-> unwrap_or_else(e, "unknown"), memory_bytes |-> unwrap_or_else(m, -1)]

do_key_info_start(p) == start("key_info", p, "key_info_type")

\* TYPE, with its `?`.
do_key_info_type(reply) ==
    /\ pc = "key_info_type"
    /\ send("TYPE", params.key, <<>>, reply)
    /\ IF ~reply.ok
       THEN /\ pc' = "done"
            /\ result' = Failure(err(Redis(reply.err)))
            /\ key_type' = key_type
       ELSE /\ pc' = "key_info_ttl"
            /\ result' = result
            /\ key_type' = reply.val
    /\ UNCHANGED <<server, outside, key_info_locals, op, params, entry, scan_locals>>

\* TTL, with its `?`.
do_key_info_ttl(reply) ==
    /\ pc = "key_info_ttl"
    /\ send("TTL", params.key, <<>>, reply)
    /\ IF ~reply.ok
       THEN /\ pc' = "done"
            /\ result' = Failure(err(Redis(reply.err)))
            /\ ttl' = ttl
       ELSE /\ pc' = "key_info_encoding"
            /\ result' = result
            /\ ttl' = reply.val
    /\ UNCHANGED <<server, outside, encoding, memory, op, params, entry, scan_locals, key_type>>

\* OBJECT ENCODING: the Result is kept, there is no `?`.
do_key_info_encoding(reply) ==
    /\ pc = "key_info_encoding"
    /\ send("OBJECT", params.key, <<"ENCODING">>, reply)
    /\ pc' = "key_info_memory"
    /\ encoding' = reply
    /\ UNCHANGED <<server, outside, ttl, memory, op, params, entry, scan_locals, key_type,
                   result>>

\* MEMORY USAGE: the Result is kept; then the payload.
do_key_info_memory(reply) ==
    /\ pc = "key_info_memory"
    /\ send("MEMORY", params.key, <<"USAGE">>, reply)
    /\ pc' = "done"
    /\ memory' = reply
    /\ result' = key_info_result(params.key, key_type, ttl, encoding, reply)
    /\ UNCHANGED <<server, outside, ttl, encoding, op, params, entry, scan_locals, key_type>>

(* get_hash_fields *)

\* str::split: the pieces between separators, one more than there are separators.
RECURSIVE split(_, _)
split(str, sep) ==
    IF \A i \in 1..Len(str) : str[i] /= sep THEN <<str>>
    ELSE LET i == CHOOSE j \in 1..Len(str) : str[j] = sep /\ \A h \in 1..(j - 1) : str[h] /= sep
         IN  <<SubSeq(str, 1, i - 1)>> \o split(SubSeq(str, i + 1, Len(str)), sep)

\* White space: tab, line feed, carriage return, space.
White == {9, 10, 13, 32}

\* str::trim
RECURSIVE trim(_)
trim(str) ==
    IF str = <<>> THEN str
    ELSE IF Head(str) \in White THEN trim(Tail(str))
    ELSE IF str[Len(str)] \in White THEN trim(SubSeq(str, 1, Len(str) - 1))
    ELSE str

\* params.fields.split(',').map(|f| f.trim())
fields_of(str) == [i \in 1..Len(split(str, 44)) |-> trim(split(str, 44)[i])]

\* The fields parameters tried: "f", "f, g", "h," as byte strings.
FieldLists == {<<102>>, <<102, 44, 32, 103>>, <<104, 44>>}

HashFieldParams == {[NoParams EXCEPT !.key = k, !.fields = f] : k \in Keys, f \in FieldLists}

hash_fields_result(k, fs, vs) ==
    [ok |-> TRUE, kind |-> "hash_fields", key |-> k,
     fields |-> [i \in 1..Min(Len(fs), Len(vs)) |->
                    [field |-> fs[i], value |-> unwrap_or(vs[i], ""), exists |-> IsSome(vs[i])]]]

do_get_hash_fields_start(p) == start("get_hash_fields", p, "hmget")

\* HMGET key field.., and the zip of the fields with the values.
do_get_hash_fields(reply) ==
    /\ pc = "hmget"
    /\ send("HMGET", params.key, fields_of(params.fields), reply)
    /\ pc' = "done"
    /\ result' = or_failure(reply, hash_fields_result(params.key, fields_of(params.fields),
                                                      reply.val))
    /\ UNCHANGED call_frame

(* get_list_range *)

\* The command that takes the head off the list.
list_range_cmd_pop == "LPOP"

\* The command do_get_list_range sends.
list_range_cmd == "LRANGE"

\* The start and stop indexes tried.
Indexes == {None, Some(0), Some(1), Some(-1)}

ListRangeParams ==
    {[NoParams EXCEPT !.key = k, !.start = a, !.stop = b] : k \in Keys, a \in Indexes, b \in Indexes}

list_range_result(k, a, b, es) ==
    [ok |-> TRUE, kind |-> "list_range", key |-> k, start |-> a, stop |-> b,
     elements |-> es, count |-> Len(es)]

do_get_list_range_start(p) == start("get_list_range", p, "lrange")

\* LRANGE key start stop, start defaulting to 0 and stop to -1.
do_get_list_range(reply) ==
    LET a == unwrap_or(params.start, 0)
        b == unwrap_or(params.stop, -1)
    IN  /\ pc = "lrange"
        /\ send(list_range_cmd, params.key, <<a, b>>, reply)
        /\ pc' = "done"
        /\ result' = or_failure(reply, list_range_result(params.key, a, b, reply.val))
        /\ UNCHANGED call_frame

(* get_set_members *)

\* The caps tried: none, and -1 up to one more than any set holds.
MemberCounts == {None} \cup {Some(c) : c \in (0 - 1)..(MaxPage + 1)}

SetMembersParams == {[NoParams EXCEPT !.key = k, !.count = c] : k \in Keys, c \in MemberCounts}

\* members.into_iter().take(count as usize): a negative i64 cast to usize is
\* 2^64 + count, beyond any length.
take(members, count) ==
    IF count < 0 THEN members ELSE SubSeq(members, 1, Min(count, Len(members)))

\* The set arm's limit.
limited(members, count) == IF IsSome(count) THEN take(members, Unwrap(count)) ELSE members

\* params.count.map(|c| c - 1).unwrap_or(-1)
zrange_stop(count) == IF IsSome(count) THEN Unwrap(count) - 1 ELSE 0 - 1

members_result(k, t, ms) ==
    [ok |-> TRUE, kind |-> "members", key |-> k, type |-> t, members |-> ms, count |-> Len(ms)]

not_a_set(k, t) ==
    [ok |-> TRUE, kind |-> "not_a_set", key |-> k,
     error |-> <<"Key is type '", t, "', not a set or zset">>]

do_get_set_members_start(p) == start("get_set_members", p, "members_type")

\* TYPE, with its `?`, and the match on the answer up to the next await.
do_get_set_members_type(reply) ==
    /\ pc = "members_type"
    /\ send("TYPE", params.key, <<>>, reply)
    /\ UNCHANGED <<server, outside, key_info_locals, op, params, entry, scan_locals>>
    /\ IF ~reply.ok
       THEN /\ pc' = "done"
            /\ result' = Failure(err(Redis(reply.err)))
            /\ key_type' = key_type
       ELSE /\ key_type' = reply.val
            /\ CASE reply.val = "set" -> pc' = "members_set" /\ result' = result
                 [] reply.val = "zset" -> pc' = "members_zset" /\ result' = result
                 [] reply.val = "none" -> pc' = "done" /\ result' = absent_result(params.key)
                 [] OTHER -> pc' = "done" /\ result' = not_a_set(params.key, reply.val)

\* The "set" arm: SMEMBERS, then the cap applied to the reply.
do_get_set_members_set(reply) ==
    /\ pc = "members_set"
    /\ send("SMEMBERS", params.key, <<>>, reply)
    /\ pc' = "done"
    /\ result' = or_failure(reply, members_result(params.key, "set",
                                                  limited(reply.val, params.count)))
    /\ UNCHANGED call_frame

\* The "zset" arm: ZRANGE key 0 stop WITHSCORES, the cap turned into stop.
do_get_set_members_zset(reply) ==
    /\ pc = "members_zset"
    /\ send("ZRANGE", params.key, <<0, zrange_stop(params.count), "WITHSCORES">>, reply)
    /\ pc' = "done"
    /\ result' = or_failure(reply, members_result(params.key, "zset",
                                                  normalize("zset", reply.val)))
    /\ UNCHANGED call_frame

(* slowlog *)

\* redis::Value, as far as do_slowlog looks at it.
Value_Int(i) == [kind |-> "int", v |-> i]

Value_BulkString(b) == [kind |-> "bulk", v |-> b]

Value_Array(a) == [kind |-> "array", v |-> a]

Value_Nil == [kind |-> "nil", v |-> 0]

SlowlogParams == {[NoParams EXCEPT !.count = c] : c \in {None, Some(1)}}

\* SLOWLOG GET answers tried: a failure, no entry, a full entry whose command
\* holds a non-string, and a short entry after it.
SlowlogReplies ==
    {Err(e) : e \in RedisErrors}
        \cup {Ok(<<>>),
              Ok(<<<<Value_Int(7), Value_Int(1700), Value_Int(12), Value_Array(<<Value_BulkString("GET"), Value_Nil, Value_BulkString("k1")>>)>>>>),
              Ok(<<<<Value_Int(7), Value_Int(1700), Value_Int(12), Value_Array(<<Value_BulkString("GET"), Value_Nil, Value_BulkString("k1")>>)>>,
                   <<Value_Nil>>>>)}

\* entry.get(i) taken as an integer, or the default.
int_at(e, i, d) == IF Len(e) >= i /\ e[i].kind = "int" THEN e[i].v ELSE d

\* The words of the command (joined by " " in the payload), or "unknown".
command_of(e) ==
    IF Len(e) >= 4 /\ e[4].kind = "array"
    THEN LET bulk == SelectSeq(e[4].v, LAMBDA a : a.kind = "bulk")
         IN  [i \in 1..Len(bulk) |-> bulk[i].v]
    ELSE <<"unknown">>

slowlog_entry(e) ==
    [id |-> int_at(e, 1, 0 - 1), timestamp |-> int_at(e, 2, 0), duration_us |-> int_at(e, 3, 0),
     command |-> command_of(e)]

slowlog_result(raw) ==
    [ok |-> TRUE, kind |-> "slowlog", entries |-> [i \in 1..Len(raw) |-> slowlog_entry(raw[i])],
     count |-> Len(raw)]

do_slowlog_start(p) == start("slowlog", p, "slowlog")

\* SLOWLOG GET count, the count defaulting to 10.
do_slowlog(reply) ==
    /\ pc = "slowlog"
    /\ send("SLOWLOG", "", <<"GET", unwrap_or(params.count, 10)>>, reply)
    /\ pc' = "done"
    /\ result' = or_failure(reply, slowlog_result(reply.val))
    /\ UNCHANGED call_frame

(* client_list *)

\* CLIENT LIST answers tried, as byte strings: a failure, the empty text, and
\* "a=1 b\n\na=2 a=3".
ClientListReplies ==
    {Err(e) : e \in RedisErrors}
        \cup {Ok(<<>>), Ok(<<97, 61, 49, 32, 98, 10, 10, 97, 61, 50, 32, 97, 61, 51>>)}

\* str::lines: the pieces between line feeds, a carriage return before the
\* line feed dropped, and no empty piece after a final line feed.
lines(raw) ==
    LET pieces == split(raw, 10)
        kept == IF pieces[Len(pieces)] = <<>> THEN SubSeq(pieces, 1, Len(pieces) - 1) ELSE pieces
    IN  [i \in 1..Len(kept) |->
            IF kept[i] /= <<>> /\ kept[i][Len(kept[i])] = 13
            THEN SubSeq(kept[i], 1, Len(kept[i]) - 1) ELSE kept[i]]

\* The parts of a line that hold "=", in order, each split at its first "=".
pairs_of(line) ==
    LET parts == SelectSeq(split(line, 32), LAMBDA part : \E i \in 1..Len(part) : part[i] = 61)
    IN  [i \in 1..Len(parts) |->
            LET at == CHOOSE j \in 1..Len(parts[i]) :
                          parts[i][j] = 61 /\ \A h \in 1..(j - 1) : parts[i][h] /= 61
            IN  <<SubSeq(parts[i], 1, at - 1), SubSeq(parts[i], at + 1, Len(parts[i]))>>]

\* The map a line becomes: map.insert for each pair, a later one replacing an earlier.
client_of(line) ==
    LET ps == pairs_of(line)
    IN  [k \in {ps[i][1] : i \in 1..Len(ps)} |->
            ps[CHOOSE i \in 1..Len(ps) :
                   ps[i][1] = k /\ \A j \in (i + 1)..Len(ps) : ps[j][1] /= k][2]]

client_list_result(raw) ==
    LET ls == SelectSeq(lines(raw), LAMBDA line : line /= <<>>)
    IN  [ok |-> TRUE, kind |-> "client_list", clients |-> [i \in 1..Len(ls) |-> client_of(ls[i])],
         count |-> Len(ls)]

do_client_list_start(p) == start("client_list", p, "client_list")

\* CLIENT LIST, and the text parsed line by line.
do_client_list(reply) ==
    /\ pc = "client_list"
    /\ send("CLIENT", "", <<"LIST">>, reply)
    /\ pc' = "done"
    /\ result' = or_failure(reply, client_list_result(reply.val))
    /\ UNCHANGED call_frame

\* McpRedisError::to_mcp_error, applied to any error value.
ToMcpError(e) ==
    /\ pc = "idle"
    /\ pc' = "done"
    /\ op' = "to_mcp_error"
    /\ params' = [NoParams EXCEPT !.error = Some(e)]
    /\ result' = Failure(to_mcp_error(e))
    /\ UNCHANGED <<server, outside, key_info_locals, entry, scan_locals, key_type, issued, last_cmd, store>>

\* The locals of a call dropped at its return.
drop_locals ==
    /\ op' = "none"
    /\ params' = NoParams
    /\ entry' = 0
    /\ pattern' = <<>>
    /\ max_keys' = 0
    /\ keys' = <<>>
    /\ cursor' = 0
    /\ iterations' = 0
    /\ types' = <<>>
    /\ key_type' = ""
    /\ ttl' = 0
    /\ encoding' = Ok("")
    /\ memory' = Ok(0)
    /\ issued' = NoneIssued
    /\ last_cmd' = NoCmd
    /\ result' = NoResult

\* The call has returned: its locals are dropped; the server keeps no trace of it.
Return ==
    /\ pc = "done"
    /\ pc' = "idle"
    /\ drop_locals
    /\ earlier' = NoCall
    /\ UNCHANGED <<server, store, all_urls, waiting>>

\* The retrieval operations.
Retrievals == {"get", "get_hash_fields", "get_list_range", "get_set_members", "scan_keys"}

\* A retrieval has returned a payload, and the caller is about to make the
\* same call again: it remembers what it asked and what it got.
Repeat ==
    /\ pc = "done"
    /\ op \in Retrievals
    /\ result.ok
    /\ earlier = NoCall
    /\ pc' = "idle"
    /\ drop_locals
    /\ earlier' = [op |-> op, params |-> params, result |-> result]
    /\ UNCHANGED <<server, store, all_urls, waiting>>

\* The parameters a call of operation o may come with: any of P, or, when
\* the caller is repeating a call, those of that call.
Again(o, P) ==
    IF earlier = NoCall THEN P ELSE {p \in P : earlier.op = o /\ earlier.params = p}

ScanKeys ==
    \/ \E p \in ScanParams : do_scan_keys_start(p)
    \/ \E reply \in ShortScanReplies(iterations) : do_scan_keys_page(reply)

SearchKeys ==
    \/ \E p \in ScanParams : do_search_keys_start(p)
    \/ \E reply \in ShortScanReplies(iterations) : do_search_keys_page(reply)
    \/ \E reply \in PipelineReplies(Len(keys)) : do_search_keys_types(reply)

Get ==
    \/ \E p \in KeyParams : do_get_start(p)
    \/ \E reply \in TypeReplies : do_get_type(reply)
    \/ pc = "get_value" /\ \E reply \in ValueReplies(key_type) : do_get_value(reply)

Classify == \E e \in McpRedisError : ToMcpError(e)

Next == ScanKeys \/ SearchKeys \/ Get \/ Return

\* Any sequence of calls, one at a time, against stores that finish an
\* enumeration within MaxTrips pages.
Spec == Init /\ [][Next]_vars

NextResolve == Get \/ Classify \/ Return

\* Calls that resolve a connection, and error values classified, for every registry.
SpecResolve == InitResolve /\ [][NextResolve]_vars

\* The answers SpecLong tries: a failure, or any cursor with a page of one
\* key at most (larger pages are Spec's).
LongScanReplies == {reply \in ScanReplies : reply.ok => Len(reply.val[2]) <= 1}

LongScanKeys ==
    \/ \E p \in LongParams : do_scan_keys_start(p)
    \/ \E reply \in LongScanReplies : do_scan_keys_page(reply)

LongSearchKeys ==
    \/ \E p \in LongParams : do_search_keys_start(p)
    \/ \E reply \in LongScanReplies : do_search_keys_page(reply)
    \/ \E reply \in LongPipelineReplies(Len(keys)) : do_search_keys_types(reply)

NextLong == LongScanKeys \/ LongSearchKeys \/ Return

\* Scans against a store that answers every SCAN as it likes, for as long as
\* it is asked: any cursor, an empty page or a key, never obliged to finish.
SpecLong == InitLong /\ [][NextLong]_vars

(* A store of known contents: what it answers follows from what it holds. *)

\* McpRedisServer::new(vec![conn], write flag, cap) on a store holding any of Stores.
InitStore ==
    /\ connections = <<"a">>
    /\ allow_write \in BOOLEAN
    /\ scan_count \in 1..MaxScanCount
    /\ Quiet
    /\ store \in Stores
    /\ all_urls = NoUrls

\* Any round trip may fail instead of being answered.
Failures == {Err(e) : e \in RedisErrors}

\* A round trip answered, or failed.
Answers(answer) == Failures \cup {answer}

\* The patterns tried on a known store: none, "k*" and "*1".
StoreScanParams ==
    {[NoParams EXCEPT !.pattern = x, !.count = c] :
        x \in {None, Some(<<107, 42>>), Some(<<42, 49>>)},
        c \in {None} \cup {Some(n) : n \in 0..MaxScanCount}}

\* SCAN's guarantee: a page holds matching keys only, any of them any number
\* of times; the cursor comes back to 0 only once every matching key has
\* been handed out since the scan began, and does so within MaxTrips pages.
StoreScanReplies(s, pat, acc, it) ==
    LET m == Matching(s, pat)
        answers == {a \in (0..MaxCursor) \X SeqsUpTo(m, MaxPage) :
                        /\ a[1] = 0 => m \subseteq Range(acc \o a[2])
                        /\ it + 1 >= MaxTrips => a[1] = 0}
    IN  Failures \cup {Ok(a) : a \in answers}

\* The pipeline of TYPEs answered: the type of each key, in order.
StorePipelineReplies(s, ks) == Failures \cup {Ok([i \in 1..Len(ks) |-> s[ks[i]].type])}

ScanKeysOn(P) ==
    \/ \E p \in P : do_scan_keys_start(p)
    \/ /\ pc = "scan"
       /\ \E reply \in StoreScanReplies(store, pattern, keys, iterations) :
             do_scan_keys_page(reply)

StoreScanKeys == ScanKeysOn(StoreScanParams)

RepeatScanKeys == ScanKeysOn(Again("scan_keys", StoreScanParams))

StoreSearchKeys ==
    \/ \E p \in StoreScanParams : do_search_keys_start(p)
    \/ /\ pc = "scan"
       /\ \E reply \in StoreScanReplies(store, pattern, keys, iterations) :
             do_search_keys_page(reply)
    \/ /\ pc = "types"
       /\ \E reply \in StorePipelineReplies(store, keys) :
             do_search_keys_types(reply)

GetOn(P) ==
    \/ \E p \in P : do_get_start(p)
    \/ /\ pc = "get_type"
       /\ \E reply \in Answers(type_answer(store, params.key)) :
             do_get_type(reply)
    \/ /\ pc = "get_value"
       /\ \E reply \in Answers(value_answer(store, params.key, key_type)) :
             do_get_value(reply)

StoreGet == GetOn(StoreKeyParams)

RepeatGet == GetOn(Again("get", StoreKeyParams))

ListConnections == do_list_connections

StoreInfo ==
    \/ \E p \in InfoParams : do_info_start(p)
    \/ \E reply \in InfoReplies : do_info(reply)

StoreDbsize ==
    \/ \E p \in ConnectionParams : do_dbsize_start(p)
    \/ /\ pc = "dbsize"
       /\ \E reply \in Answers(dbsize_answer(store)) :
             do_dbsize(reply)

StoreKeyInfo ==
    \/ \E p \in StoreKeyParams : do_key_info_start(p)
    \/ /\ pc = "key_info_type"
       /\ \E reply \in Answers(type_answer(store, params.key)) :
             do_key_info_type(reply)
    \/ /\ pc = "key_info_ttl"
       /\ \E reply \in Failures \cup ttl_answers(store, params.key) :
             do_key_info_ttl(reply)
    \/ /\ pc = "key_info_encoding"
       /\ \E reply \in Answers(encoding_answer(store, params.key)) :
             do_key_info_encoding(reply)
    \/ /\ pc = "key_info_memory"
       /\ \E reply \in Answers(memory_answer(store, params.key)) :
             do_key_info_memory(reply)

GetHashFieldsOn(P) ==
    \/ \E p \in P : do_get_hash_fields_start(p)
    \/ /\ pc = "hmget"
       /\ \E reply \in Answers(hmget_answer(store, params.key, fields_of(params.fields))) :
             do_get_hash_fields(reply)

StoreGetHashFields == GetHashFieldsOn(HashFieldParams)

RepeatGetHashFields == GetHashFieldsOn(Again("get_hash_fields", HashFieldParams))

GetListRangeOn(P) ==
    \/ \E p \in P : do_get_list_range_start(p)
    \/ /\ pc = "lrange"
       /\ \E reply \in Answers(lrange_answer(store, params.key, unwrap_or(params.start, 0),
                                            unwrap_or(params.stop, 0 - 1))) :
             do_get_list_range(reply)

StoreGetListRange == GetListRangeOn(ListRangeParams)

RepeatGetListRange == GetListRangeOn(Again("get_list_range", ListRangeParams))

GetSetMembersOn(P) ==
    \/ \E p \in P : do_get_set_members_start(p)
    \/ /\ pc = "members_type"
       /\ \E reply \in Answers(type_answer(store, params.key)) :
             do_get_set_members_type(reply)
    \/ /\ pc = "members_set"
       /\ \E reply \in Answers(smembers_answer(store, params.key)) :
             do_get_set_members_set(reply)
    \/ /\ pc = "members_zset"
       /\ \E reply \in Answers(zrange_answer(store, params.key, zrange_stop(params.count))) :
             do_get_set_members_zset(reply)

StoreGetSetMembers == GetSetMembersOn(SetMembersParams)

RepeatGetSetMembers == GetSetMembersOn(Again("get_set_members", SetMembersParams))

Slowlog ==
    \/ \E p \in SlowlogParams : do_slowlog_start(p)
    \/ \E reply \in SlowlogReplies : do_slowlog(reply)

ClientList ==
    \/ \E p \in ConnectionParams : do_client_list_start(p)
    \/ \E reply \in ClientListReplies : do_client_list(reply)

NextStore ==
    \/ ListConnections
    \/ StoreInfo
    \/ StoreScanKeys
    \/ StoreGet
    \/ StoreKeyInfo
    \/ StoreDbsize
    \/ StoreSearchKeys
    \/ StoreGetHashFields
    \/ StoreGetListRange
    \/ StoreGetSetMembers
    \/ Slowlog
    \/ ClientList
    \/ Return

\* The twelve operations, one call at a time, on one instance whose store
\* holds known contents and answers from them, or fails.
SpecStore == InitStore /\ [][NextStore]_vars

(* The same call made twice. *)

\* McpRedisServer::new(vec![conn], false, cap) on a store holding any of Stores.
InitRepeat ==
    /\ connections = <<"a">>
    /\ allow_write = FALSE
    /\ scan_count \in 1..MaxScanCount
    /\ Quiet
    /\ store \in Stores
    /\ all_urls = NoUrls

NextRepeat ==
    \/ RepeatGet
    \/ RepeatGetHashFields
    \/ RepeatGetListRange
    \/ RepeatGetSetMembers
    \/ RepeatScanKeys
    \/ Repeat
    \/ Return

\* The retrieval operations on a store of known contents that nothing
\* modifies, each call either dropped or made once more with the same
\* parameters.
SpecRepeat == InitRepeat /\ [][NextRepeat]_vars

(* Startup: main builds the registry from the configured addresses. *)

\* The port a redis:// address without a port means.
DEFAULT_PORT == 6379

\* An address, as url::Url::parse and redis::Client see it: whether a client
\* opens and connects on it, whether it parses, user, host, port, path.
Url(up, parses, user, host, port, path) ==
    [up |-> up, parses |-> parses, user |-> user, host |-> host, port |-> port, path |-> path]

\* redis://127.0.0.1:6379
DefaultUrl == Url(TRUE, TRUE, "", Some("127.0.0.1"), Some(DEFAULT_PORT), "")

\* The addresses tried: redis://h, redis://u@h:6379/0, redis://h:6380/1,
\* redis://h/1, redis://:6379 and one nothing answers on.
Urls ==
    {Url(TRUE, TRUE, "", Some("h"), None, ""),
     Url(TRUE, TRUE, "u", Some("h"), Some(DEFAULT_PORT), "/0"),
     Url(TRUE, TRUE, "", Some("h"), Some(DEFAULT_PORT + 1), "/1"),
     Url(TRUE, TRUE, "", Some("h"), None, "/1"),
     Url(FALSE, TRUE, "", Some("down"), None, "")}

\* str::trim_start_matches('/') of the paths tried.
trim_start_slash(path) ==
    CASE path = "" -> ""
      [] path = "/0" -> "0"
      [] path = "/1" -> "1"

\* format!("{}:{}", ..), format!("{}:{}/{}", ..) and format!("redis-{}", ..)
\* are kept as the list of their pieces.
extract_connection_name(url, idx) ==
    IF url.parses
    THEN LET host == unwrap_or(url.host, "unknown")
             port == unwrap_or(url.port, DEFAULT_PORT)
             db == trim_start_slash(url.path)
         IN  IF db = "" \/ db = "0"
             THEN <<host, ":", port>>
             ELSE <<host, ":", port, "/", db>>
    ELSE <<"redis-", idx>>

\* The process started with any flag and any list of up to MaxConns addresses.
InitMain ==
    /\ pc = "start"
    /\ Blank
    /\ connections = <<>>
    /\ allow_write \in BOOLEAN
    /\ scan_count = SCAN_COUNT_DEFAULT
    /\ store = Untracked
    /\ all_urls \in SeqsUpTo(Urls, MaxConns)

main_frame ==
    <<allow_write, scan_count, key_info_locals, op, params, entry, scan_locals, key_type,
      issued, last_cmd, store, result, earlier, waiting>>

\* With no address given, the default one.
main_default ==
    /\ pc = "start"
    /\ pc' = "main"
    /\ all_urls' = IF all_urls = <<>> THEN <<DefaultUrl>> ELSE all_urls
    /\ UNCHANGED <<connections, main_frame>>

\* One turn of the loop over all_urls: open and connect (or bail out), name
\* the connection, push it.
main_connect ==
    /\ pc = "main"
    /\ Len(connections) < Len(all_urls)
    /\ LET i == Len(connections)
           url_str == all_urls[i + 1]
           name == IF Len(all_urls) = 1 THEN <<"redis">>
                   ELSE extract_connection_name(url_str, i)
       IN  IF ~url_str.up
           THEN pc' = "exit" /\ connections' = connections
           ELSE pc' = "main" /\ connections' = Append(connections, name)
    /\ UNCHANGED <<all_urls, main_frame>>

\* McpRedisServer::new(connections, ..) and serve: calls may come.
main_serve ==
    /\ pc = "main"
    /\ Len(connections) = Len(all_urls)
    /\ pc' = "idle"
    /\ UNCHANGED <<connections, all_urls, main_frame>>

NextMain == main_default \/ main_connect \/ main_serve \/ ListConnections \/ Return

\* The process from its start to a serving registry, and the registry listed.
SpecMain == InitMain /\ [][NextMain]_vars

(* Every operation called with any connection parameter on any registry. *)

\* The connection parameters tried: left out, a name an entry may bear, and
\* a name no entry bears.
Connections == {None, Some("a"), Some("c")}

\* The calls of P made with each of those.
Named(P) == {[p EXCEPT !.connection = c] : p \in P, c \in Connections}

\* Two stores: a set or an ordered set under "k1", a string under "k2".
CallStores == {s \in Stores : s["k1"].type \in {"set", "zset"} /\ s["k2"].type = "string"}

\* McpRedisServer::new with any registry of up to MaxConns entries.
InitCalls ==
    /\ connections \in SeqsUpTo(Names, MaxConns)
    /\ allow_write = FALSE
    /\ scan_count = MaxScanCount
    /\ Quiet
    /\ store \in CallStores
    /\ all_urls = NoUrls

\* The scans asked for with any connection and any pattern, the cap left to
\* the server.
CallScanParams == {p \in ScanParams : p.count = None}

\* The head of each of the eleven operations that take a connection
\* parameter; scan_keys and search_keys come with null-byte patterns too.
CallStart ==
    \/ \E p \in Named(InfoParams) : do_info_start(p)
    \/ \E p \in CallScanParams : do_scan_keys_start(p)
    \/ \E p \in Named(StoreKeyParams) : do_get_start(p)
    \/ \E p \in Named(StoreKeyParams) : do_key_info_start(p)
    \/ \E p \in Named(ConnectionParams) : do_dbsize_start(p)
    \/ \E p \in CallScanParams : do_search_keys_start(p)
    \/ \E p \in Named(HashFieldParams) : do_get_hash_fields_start(p)
    \/ \E p \in Named(ListRangeParams) : do_get_list_range_start(p)
    \/ \E p \in Named(SetMembersParams) : do_get_set_members_start(p)
    \/ \E p \in Named(SlowlogParams) : do_slowlog_start(p)
    \/ \E p \in Named(ConnectionParams) : do_client_list_start(p)

NextCalls == CallStart \/ NextStore

\* The twelve operations on any registry, each call naming a connection, a
\* connection nobody has, or none.
SpecCalls == InitCalls /\ [][NextCalls]_vars

(* get while another client of the store writes. *)

\* Another client of the store sets the key of the running get to other
\* contents, or deletes it, before or between the call's round trips.
Writer ==
    /\ pc \in {"get_type", "get_value"}
    /\ \E c \in Contents :
          /\ c /= store[params.key]
          /\ store' = [store EXCEPT ![params.key] = c]
          /\ store' \in Stores
    /\ UNCHANGED <<server, outside, key_info_locals, pc, op, params, entry, scan_locals,
                   key_type, issued, last_cmd, result>>

NextRace == StoreGet \/ Writer \/ Return

\* get on one instance whose store another client changes under the call.
SpecRace == InitStore /\ [][NextRace]_vars

(* Two scans in flight on one connection. *)

\* The calls tried in pairs: no pattern, no cap or a cap of one.
PairParams == {[NoParams EXCEPT !.count = c] : c \in {None, Some(1)}}

\* One instance, the server's cap at its largest.
InitPair ==
    /\ connections = <<"a">>
    /\ allow_write = FALSE
    /\ scan_count = MaxScanCount
    /\ Quiet
    /\ store = Untracked
    /\ all_urls = NoUrls

\* The running call's locals put where the parked call's were.
Switch_cursor_shared ==
    /\ pc /= "idle" \/ waiting.pc /= "idle"
    /\ waiting' = frame
    /\ pc' = waiting.pc
    /\ op' = waiting.op
    /\ params' = waiting.params
    /\ entry' = waiting.entry
    /\ pattern' = waiting.pattern
    /\ max_keys' = waiting.max_keys
    /\ keys' = waiting.keys
    /\ cursor' = cursor
    /\ iterations' = waiting.iterations
    /\ types' = waiting.types
    /\ key_type' = waiting.key_type
    /\ ttl' = waiting.ttl
    /\ encoding' = waiting.encoding
    /\ memory' = waiting.memory
    /\ issued' = waiting.issued
    /\ last_cmd' = waiting.last_cmd
    /\ result' = waiting.result
    /\ UNCHANGED <<server, store, earlier, all_urls>>

\* At an await the executor goes on with the other call in flight (or with
\* none, leaving room for a second call to come): the running call is parked
\* with its locals, and the parked one runs from where it was.
Switch ==
    /\ pc /= "idle" \/ waiting.pc /= "idle"
    /\ waiting' = frame
    /\ pc' = waiting.pc
    /\ op' = waiting.op
    /\ params' = waiting.params
    /\ entry' = waiting.entry
    /\ pattern' = waiting.pattern
    /\ max_keys' = waiting.max_keys
    /\ keys' = waiting.keys
    /\ cursor' = waiting.cursor
    /\ iterations' = waiting.iterations
    /\ types' = waiting.types
    /\ key_type' = waiting.key_type
    /\ ttl' = waiting.ttl
    /\ encoding' = waiting.encoding
    /\ memory' = waiting.memory
    /\ issued' = waiting.issued
    /\ last_cmd' = waiting.last_cmd
    /\ result' = waiting.result
    /\ UNCHANGED <<server, store, earlier, all_urls>>

\* The answers tried in pairs: those of LongScanReplies, the enumeration
\* over within MaxTrips pages.
PairScanReplies(it) == ShortScanReplies(it) \cap LongScanReplies

PairScanKeys ==
    \/ \E p \in PairParams : do_scan_keys_start(p)
    \/ \E reply \in PairScanReplies(iterations) : do_scan_keys_page(reply)

NextPair == PairScanKeys \/ Switch \/ Return

\* Two scan_keys calls on one connection, their round trips interleaved in
\* every way.
SpecPair == InitPair /\ [][NextPair]_vars

(* ------------------------------ properties ----------------------------- *)

Scanning == op \in {"scan_keys", "search_keys"}

MsgNotFound == "Connection not found: "

MsgAmbiguous ==
    "Ambiguous connection: multiple Redis instances connected, specify 'connection' parameter"

MsgReadOnly == "Write operation rejected: "

MsgRedis == "Redis error: "

MsgNullByte == "Pattern must not contain null bytes"

Failed == result.kind = "error"

\* The call failed with the Display text of the given variant.
FailedWith(prefix, arg) == Failed /\ result.error.message = <<prefix, arg>>

\* The registry has an entry the request's connection parameter selects.
Resolvable ==
    IF IsSome(params.connection)
    THEN \E i \in 1..Len(connections) : connections[i] = Unwrap(params.connection)
    ELSE Len(connections) = 1

HasNul(p) == \E i \in 1..Len(p) : p[i] = 0

\* C1: the key list a scan_keys or search_keys call returns is never longer
\* than the requested cap (when one is given) nor than the server's cap, so a
\* requested cap above the server's never raises the limit.
C1_ScanCapRespected ==
    (pc = "done" /\ Scanning /\ result.ok) =>
        /\ Len(result.keys) <= scan_count
        /\ IsSome(params.count) => Len(result.keys) <= Unwrap(params.count)
        /\ result.count = Len(result.keys)

\* A call that asked for more than the server's cap and got exactly the
\* server's cap, on the first page.
C1_Witness ==
    /\ pc = "done"
    /\ op = "scan_keys"
    /\ result.ok
    /\ scan_count = MaxScanCount
    /\ params.count = Some(MaxScanCount + 1)
    /\ Len(result.keys) = scan_count
    /\ issued["SCAN"] = 1

\* C2: one scan_keys or search_keys call sends at most MAX_SCAN_ITERATIONS
\* (1000) SCANs whatever the store answers: the loop counts every SCAN it
\* sends and is left, at the latest, on the 1000th answer.
C2_ScanRoundTripsBounded ==
    /\ issued["SCAN"] <= MAX_SCAN_ITERATIONS
    /\ pc = "scan" => (iterations = issued["SCAN"] /\ issued["SCAN"] < MAX_SCAN_ITERATIONS)
    /\ pc \in {"types", "done"} => iterations <= issued["SCAN"]

\* A call stopped by the ceiling alone: 1000 SCANs sent, the cursor never back
\* at 0 on the last answer, and no key ever returned.
C2_Witness ==
    /\ pc = "done"
    /\ Scanning
    /\ issued["SCAN"] = MAX_SCAN_ITERATIONS
    /\ cursor /= 0
    /\ result.ok
    /\ result.keys = <<>>

\* C3: a call naming a connection runs on an entry of that very name whenever
\* the registry has one; when it has none (the empty registry included) the
\* call fails with ConnectionNotFound carrying the requested name, with no
\* entry chosen and nothing sent.
C3_ResolveByName ==
    (pc /= "idle" /\ op = "get" /\ IsSome(params.connection)) =>
        LET n == Unwrap(params.connection)
        IN  IF \E i \in 1..Len(connections) : connections[i] = n
            THEN /\ entry \in 1..Len(connections)
                 /\ connections[entry] = n
                 /\ resolve(connections, params.connection).ok
                 /\ Failed => result.error.message[1] = MsgRedis
            ELSE /\ entry = 0
                 /\ pc = "done"
                 /\ FailedWith(MsgNotFound, n)
                 /\ resolve(connections, params.connection) = Err(ConnectionNotFound(n))
                 /\ RoundTrips = 0

\* A registry of two entries named apart, the second one asked for and got.
C3_Witness ==
    /\ pc = "get_type"
    /\ Len(connections) = 2
    /\ connections[1] /= connections[2]
    /\ params.connection = Some(connections[2])
    /\ entry = 2

\* C4: with a registry of one entry, a call with no connection name and a call
\* with the entry's own name both run on that entry; a call with any other
\* name fails with ConnectionNotFound.
C4_SingleRegistry ==
    (Len(connections) = 1) =>
        /\ resolve(connections, None) = Ok(1)
        /\ resolve(connections, Some(connections[1])) = resolve(connections, None)
        /\ (pc /= "idle" /\ op = "get") =>
              IF params.connection \in {None, Some(connections[1])}
              THEN /\ entry = 1
                   /\ Failed => result.error.message[1] = MsgRedis
              ELSE /\ entry = 0
                   /\ pc = "done"
                   /\ FailedWith(MsgNotFound, Unwrap(params.connection))

\* A registry of one entry, and a call without a connection name running on it.
C4_Witness ==
    /\ pc = "get_type"
    /\ Len(connections) = 1
    /\ params.connection = None
    /\ entry = 1

\* C5: with a registry of any size but one (empty, or two and more), a call
\* with no connection name fails with AmbiguousConnection: no entry is chosen,
\* nothing is sent, nothing panics.
C5_AmbiguousUnlessSingle ==
    (Len(connections) /= 1) =>
        /\ resolve(connections, None) = Err(AmbiguousConnection)
        /\ (pc /= "idle" /\ op = "get" /\ params.connection = None) =>
              /\ pc = "done"
              /\ entry = 0
              /\ result.kind /= "panic"
              /\ FailedWith(MsgAmbiguous, "")
              /\ result.error.code = "invalid_params"
              /\ RoundTrips = 0

\* The empty registry, and a call without a connection name turned down.
C5_Witness ==
    /\ pc = "done"
    /\ op = "get"
    /\ connections = <<>>
    /\ params.connection = None
    /\ FailedWith(MsgAmbiguous, "")

\* C6 as claimed: a scan_keys or search_keys call whose pattern holds a null
\* byte fails with the validation error (Other), nothing sent.
C6_NullByteAlwaysValidationError ==
    (pc /= "idle" /\ Scanning /\ IsSome(params.pattern) /\ HasNul(Unwrap(params.pattern))) =>
        /\ pc = "done"
        /\ FailedWith("", MsgNullByte)
        /\ RoundTrips = 0

\* C6, amended: a scan_keys or search_keys call whose pattern holds a null
\* byte fails with nothing sent on any connection; the failure is the
\* validation error (Other) when the connection resolves, and the resolver's
\* ConnectionNotFound or AmbiguousConnection when it does not.
C6_NullByteRejectedBeforeStore ==
    (pc /= "idle" /\ Scanning /\ IsSome(params.pattern) /\ HasNul(Unwrap(params.pattern))) =>
        /\ pc = "done"
        /\ RoundTrips = 0
        /\ last_cmd = NoCmd
        /\ IF Resolvable
           THEN FailedWith("", MsgNullByte)
           ELSE \/ FailedWith(MsgAmbiguous, "")
                \/ /\ IsSome(params.connection)
                   /\ FailedWith(MsgNotFound, Unwrap(params.connection))

\* A search_keys call on a resolved connection turned down for its pattern.
C6_Witness ==
    /\ pc = "done"
    /\ op = "search_keys"
    /\ entry = 2
    /\ IsSome(params.pattern)
    /\ HasNul(Unwrap(params.pattern))
    /\ FailedWith("", MsgNullByte)
    /\ RoundTrips = 0

\* C7 as claimed: a validation failure (Other) reaches the caller as an
\* invalid-input failure, not as an internal one.
C7_ValidationFailureIsInvalidInput ==
    (pc = "done" /\ FailedWith("", MsgNullByte)) => result.error.code = "invalid_params"

\* C8: every failure carries exactly one of the two classes; ConnectionNotFound,
\* AmbiguousConnection and ReadOnly are invalid-input, a store error (Redis)
\* is internal.
C8_ErrorClasses ==
    (pc = "done" /\ Failed) =>
        /\ result.error.code \in {"invalid_params", "internal_error"}
        /\ result.error.message[1] \in {MsgNotFound, MsgAmbiguous, MsgReadOnly}
              => result.error.code = "invalid_params"
        /\ result.error.message[1] = MsgRedis => result.error.code = "internal_error"
        /\ op = "to_mcp_error" =>
              LET e == Unwrap(params.error)
              IN  /\ e.variant \in {"ConnectionNotFound", "AmbiguousConnection", "ReadOnly"}
                        => result.error.code = "invalid_params"
                  /\ e.variant = "Redis" => result.error.code = "internal_error"

\* A ReadOnly error classified.
C8_Witness ==
    /\ pc = "done"
    /\ op = "to_mcp_error"
    /\ Unwrap(params.error).variant = "ReadOnly"
    /\ result.error.code = "invalid_params"

\* C9: when TYPE answers "none", get returns at once the successful payload
\* {"error": "Key does not exist", "key": <name>}: TYPE is the only round trip,
\* no retrieval command follows.
C9_GetAbsentKey ==
    (op = "get" /\ key_type = "none") =>
        /\ pc = "done"
        /\ result = [ok |-> TRUE, kind |-> "absent", error |-> "Key does not exist",
                     key |-> params.key]
        /\ issued["TYPE"] = 1
        /\ RoundTrips = 1
        /\ last_cmd.name = "TYPE"
        /\ last_cmd.key = params.key

\* A get whose TYPE answered "none".
C9_Witness ==
    /\ pc = "done"
    /\ op = "get"
    /\ key_type = "none"
    /\ result.ok
    /\ result.kind = "absent"

\* The retrieval command the claim names for each type.
RetrievalOf ==
    [string |-> [name |-> "GET", args |-> <<>>],
     list |-> [name |-> "LRANGE", args |-> <<"0", "-1">>],
     set |-> [name |-> "SMEMBERS", args |-> <<>>],
     zset |-> [name |-> "ZRANGE", args |-> <<"0", "-1", "WITHSCORES">>],
     hash |-> [name |-> "HGETALL", args |-> <<>>]]

\* C10: once TYPE has answered a type other than "none", get sends exactly one
\* retrieval command, the one of that type (string GET, list LRANGE 0 -1, set
\* SMEMBERS, zset ZRANGE 0 -1 WITHSCORES, hash HGETALL), and a payload it
\* returns is tagged with that type; for any other type it sends nothing more
\* and returns the successful fallback payload carrying the raw type string.
C10_GetDispatch ==
    (op = "get" /\ key_type \notin {"", "none"}) =>
        IF key_type \in {"string", "list", "set", "zset", "hash"}
        THEN /\ pc \in {"get_value", "done"}
             /\ issued["TYPE"] = 1
             /\ pc = "get_value" => RoundTrips = 1
             /\ pc = "done" =>
                   /\ RoundTrips = 2
                   /\ issued[RetrievalOf[key_type].name] = 1
                   /\ last_cmd.name = RetrievalOf[key_type].name
                   /\ last_cmd.args = RetrievalOf[key_type].args
                   /\ last_cmd.key = params.key
                   /\ last_cmd.conn = entry
                   /\ result.ok =>
                         /\ result.kind = "value"
                         /\ result.key = params.key
                         /\ result.type = key_type
        ELSE /\ pc = "done"
             /\ RoundTrips = 1
             /\ issued["TYPE"] = 1
             /\ result = [ok |-> TRUE, kind |-> "value", key |-> params.key,
                          type |-> key_type,
                          value |-> [type |-> key_type, note |-> "Unsupported type"]]

\* A get of an ordered set: ZRANGE with scores sent, the payload tagged zset.
C10_Witness ==
    /\ pc = "done"
    /\ op = "get"
    /\ key_type = "zset"
    /\ last_cmd.name = "ZRANGE"
    /\ result.ok
    /\ result.type = "zset"
    /\ Len(result.value) = 2
    /\ result.value[1] = [member |-> "m", score |-> 1]

\* C11: in search_keys the type lookups cost no round trip when the scanned
\* key list is empty and exactly one pipelined round trip, carrying one TYPE
\* per key, when it holds one key or more; no TYPE is ever sent on its own.
C11_TypeLookupsBatched ==
    (op = "search_keys") =>
        /\ issued["TYPE"] = 0
        /\ issued["PIPELINE"] \in {0, 1}
        /\ RoundTrips = issued["SCAN"] + issued["PIPELINE"]
        /\ pc = "types" => (keys /= <<>> /\ issued["PIPELINE"] = 0)
        /\ (pc = "done" /\ result.ok) =>
              issued["PIPELINE"] = (IF keys = <<>> THEN 0 ELSE 1)
        /\ issued["PIPELINE"] = 1 =>
              /\ keys /= <<>>
              /\ last_cmd.name = "PIPELINE"
              /\ last_cmd.args = [i \in 1..Len(keys) |-> "TYPE"]

\* Two keys scanned and typed in one pipelined round trip.
C11_Witness ==
    /\ pc = "done"
    /\ op = "search_keys"
    /\ Len(keys) = 2
    /\ issued["PIPELINE"] = 1
    /\ issued["TYPE"] = 0
    /\ result.ok
    /\ result.count = 2

\* C12: when the pipelined type lookup of search_keys fails, the call still
\* succeeds: it returns one record per scanned key, in the scanned order,
\* every one typed "unknown", and the store's error is not returned.
C12_TypeLookupFailureDegrades ==
    (op = "search_keys" /\ last_cmd.name = "PIPELINE" /\ last_cmd.failed) =>
        /\ pc = "done"
        /\ result.ok
        /\ result.kind = "search"
        /\ Len(result.keys) = Len(keys)
        /\ \A i \in 1..Len(keys) : result.keys[i] = [key |-> keys[i], type |-> "unknown"]
        /\ result.count = Len(keys)

\* A failed lookup for two scanned keys, both returned as "unknown".
C12_Witness ==
    /\ pc = "done"
    /\ op = "search_keys"
    /\ last_cmd.name = "PIPELINE"
    /\ last_cmd.failed
    /\ Len(keys) = 2
    /\ result.ok
    /\ result.keys[2].type = "unknown"

\* C13: a successful search_keys returns exactly one {key, type} record per
\* scanned key, in the scanned order; the i-th record carries the i-th key
\* and the i-th type of the store's answer; the count is the number of
\* scanned keys left by the truncation to the effective cap.
C13_SearchRecords ==
    (op = "search_keys" /\ pc = "done" /\ result.ok) =>
        /\ Len(keys) <= max_keys
        /\ Len(result.keys) = Len(keys)
        /\ result.count = Len(keys)
        /\ \A i \in 1..Len(keys) : result.keys[i].key = keys[i]
        /\ (keys /= <<>> /\ ~last_cmd.failed) =>
              /\ Len(types) = Len(keys)
              /\ \A i \in 1..Len(keys) : result.keys[i].type = types[i]

\* Two keys the store typed differently, each record carrying its own type.
C13_Witness ==
    /\ pc = "done"
    /\ op = "search_keys"
    /\ result.ok
    /\ Len(keys) = 2
    /\ keys[1] /= keys[2]
    /\ ~last_cmd.failed
    /\ types = <<"string", "hash">>
    /\ result.keys = <<[key |-> keys[1], type |-> "string"],
                       [key |-> keys[2], type |-> "hash"]>>

\* C18: when a SCAN of scan_keys or search_keys fails, at whatever turn of
\* the loop, the call is over at once with the store's error, classed
\* internal; the result carries none of the keys of the earlier pages, and
\* the failed SCAN is the last command the call sends.
C18_ScanFailureAborts ==
    (Scanning /\ last_cmd.name = "SCAN" /\ last_cmd.failed) =>
        /\ pc = "done"
        /\ ~result.ok
        /\ result.kind = "error"
        /\ DOMAIN result = {"ok", "kind", "error"}
        /\ result.error.code = "internal_error"
        /\ result.error.message[1] = MsgRedis
        /\ result.error.message[2] \in RedisErrors
        /\ RoundTrips = issued["SCAN"]
        /\ issued["SCAN"] = iterations + 1

\* A search_keys whose second SCAN failed after the first had given a key.
C18_Witness ==
    /\ pc = "done"
    /\ op = "search_keys"
    /\ last_cmd.name = "SCAN"
    /\ last_cmd.failed
    /\ issued["SCAN"] = 2
    /\ keys /= <<>>
    /\ Failed
    /\ result.error.code = "internal_error"

\* C14: no step of any of the twelve operations changes what the store
\* holds, with the write flag on or off: every command sent is one of the
\* reading commands, and the store after the round trip is the store before.
C14_StoreNeverMutated ==
    [][/\ store' = store
       /\ last_cmd'.name \in ReadCommands \cup {""}
       /\ \A c \in WriteCommands : issued'[c] = 0]_vars

\* A call made with the write flag on, two round trips done on a store that
\* holds an ordered set.
C14_Witness ==
    /\ allow_write
    /\ pc = "done"
    /\ op = "get_set_members"
    /\ RoundTrips = 2
    /\ last_cmd.name = "ZRANGE"
    /\ store[params.key].type = "zset"
    /\ result.ok

\* C15 as claimed: but for the pipelined type lookup of search_keys, a call
\* one of whose round trips failed (the OBJECT ENCODING and MEMORY USAGE
\* lookups of key_info included) ends in that failure, not in a payload.
C15_StoreFailurePropagates ==
    /\ (pc = "done" /\ last_cmd.failed /\ ~(op = "search_keys" /\ last_cmd.name = "PIPELINE"))
          => (Failed /\ result.error.message[1] = MsgRedis)
    /\ (pc = "done" /\ op = "key_info" /\ RoundTrips = 4 /\ (~encoding.ok \/ ~memory.ok))
          => (Failed /\ result.error.message[1] = MsgRedis)

\* The members a key holds, as get_set_members reports them.
MembersHeld(c) ==
    IF c.type = "zset" THEN [i \in 1..Len(c.scored) |->
                                [member |-> c.scored[i][1], score |-> c.scored[i][2]]]
    ELSE c.items

\* C16 as claimed: with a cap c >= 0 on a set or ordered set of n members,
\* get_set_members returns min(c, n) members and that count, never more than
\* c; of an ordered set, the first min(c, n) pairs in score order.
C16_MembersCapped ==
    (/\ pc = "done"
     /\ op = "get_set_members"
     /\ result.ok
     /\ result.kind = "members"
     /\ IsSome(params.count)
     /\ Unwrap(params.count) >= 0) =>
        LET held == MembersHeld(store[params.key])
            m == Min(Unwrap(params.count), Len(held))
        IN  /\ Len(result.members) = m
            /\ result.count = m
            /\ Len(result.members) <= Unwrap(params.count)
            /\ result.type = "zset" => result.members = SubSeq(held, 1, m)

\* C17 as claimed: when the matching keys are no more than the effective cap
\* and the enumeration has come back to cursor 0, scan_keys returns exactly
\* the set of matching keys, and a count equal to their number, whatever
\* pages (repeats included) the store chose.
C17_ScanReturnsMatchingSet ==
    (/\ pc = "done"
     /\ op = "scan_keys"
     /\ result.ok
     /\ cursor = 0
     /\ Cardinality(Matching(store, pattern)) <= max_keys) =>
        /\ Range(result.keys) = Matching(store, pattern)
        /\ result.count = Cardinality(Matching(store, pattern))


\* C19 as claimed: whatever addresses the process is started with, no two
\* entries of the registry it serves bear the same name.
C19_RegistryNamesUnique ==
    (pc \in {"idle", "done"}) =>
        \A i \in 1..Len(connections) : \A j \in 1..Len(connections) :
            i /= j => connections[i] /= connections[j]

\* C20 as claimed: on an unmodified store, a retrieval (get, get_hash_fields,
\* get_list_range, get_set_members, scan_keys) made again with the same
\* parameters returns the very result it returned before.
C20_ReadsIdempotent ==
    (pc = "done" /\ earlier /= NoCall /\ result.ok) => result = earlier.result

\* C20, amended: on an unmodified store, get, get_hash_fields, get_list_range
\* and get_set_members made again with the same parameters return the very
\* result they returned before; scan_keys made again returns the pages of the
\* new enumeration (the same pattern, keys that match it, no more than the
\* cap), which need not be those of the first; and when the second call
\* starts, the first has left nothing behind: every local is blank and the
\* server is as it was built.
C20_KeyReadsIdempotent ==
    /\ (pc = "done" /\ earlier /= NoCall /\ result.ok) =>
          /\ op = earlier.op
          /\ params = earlier.params
          /\ op /= "scan_keys" => result = earlier.result
          /\ op = "scan_keys" =>
                /\ result.pattern = earlier.result.pattern
                /\ Range(result.keys) \subseteq Matching(store, pattern)
                /\ Len(result.keys) <= max_keys
    /\ (pc = "idle" /\ earlier /= NoCall) =>
          /\ blank_locals
          /\ connections = <<"a">>
          /\ ~allow_write
    /\ earlier /= NoCall => store \in Stores

\* A list read twice over the same range, the same two elements both times.
C20_Witness ==
    /\ pc = "done"
    /\ op = "get_list_range"
    /\ earlier.op = "get_list_range"
    /\ result.ok
    /\ result.count = 2
    /\ result = earlier.result

\* C26: with an effective cap of 0 (a requested cap of 0, or a server cap of
\* 0) on a resolved connection and a valid pattern, scan_keys and search_keys
\* send exactly one SCAN; a call the store answered returns the empty list
\* and count 0, and search_keys sends no type lookup of any kind.
C26_ZeroCapOneScan ==
    (/\ Scanning
     /\ Resolvable
     /\ ~HasNul(unwrap_or(params.pattern, DefaultPattern))
     /\ max_keys_of(params.count, scan_count) = 0) =>
        /\ pc \in {"scan", "done"}
        /\ max_keys = 0
        /\ pc = "scan" => RoundTrips = 0
        /\ pc = "done" =>
              /\ issued["SCAN"] = 1
              /\ RoundTrips = 1
              /\ issued["PIPELINE"] = 0
              /\ issued["TYPE"] = 0
              /\ last_cmd.cursor = 0
              /\ IF last_cmd.failed
                 THEN Failed /\ result.error.message[1] = MsgRedis
                 ELSE /\ result.ok
                      /\ result.keys = <<>>
                      /\ result.count = 0

\* A search_keys with a requested cap of 0 on a server whose cap is not 0: one
\* SCAN answered with keys and a cursor to go on from, and nothing returned.
C26_Witness ==
    /\ pc = "done"
    /\ op = "search_keys"
    /\ params.count = Some(0)
    /\ scan_count = MaxScanCount
    /\ issued["SCAN"] = 1
    /\ cursor /= 0
    /\ result.ok
    /\ result.keys = <<>>
    /\ result.count = 0

\* C23: in a registry where two or more entries bear one name, a call by that
\* name runs on the entry of the lowest index; no call, named or not, ever
\* runs on an entry that comes after another of the same name, and every
\* command of the call goes to the entry resolved.
C23_FirstMatchWins ==
    (pc /= "idle" /\ op = "get" /\ entry /= 0) =>
        /\ entry \in 1..Len(connections)
        /\ \A j \in 1..(entry - 1) : connections[j] /= connections[entry]
        /\ IsSome(params.connection) =>
              /\ connections[entry] = Unwrap(params.connection)
              /\ \A j \in 1..Len(connections) :
                    connections[j] = Unwrap(params.connection) => entry <= j
        /\ params.connection = None => (entry = 1 /\ Len(connections) = 1)
        /\ last_cmd.conn \in {0, entry}

\* Two entries of one name, a call by that name answered by the first.
C23_Witness ==
    /\ pc = "done"
    /\ op = "get"
    /\ Len(connections) = MaxConns
    /\ \A i \in 1..Len(connections) : connections[i] = "a"
    /\ params.connection = Some("a")
    /\ entry = 1
    /\ last_cmd.conn = 1
    /\ result.ok

\* C21: the first SCAN of a call carries cursor 0 and each later one the
\* cursor the answer before it returned; a SCAN is sent after an answer only
\* when that answer's cursor was not 0, the keys gathered were fewer than the
\* effective cap and fewer than MAX_SCAN_ITERATIONS (1000) SCANs had been
\* sent; and whenever those three hold after an answer, the loop goes on to
\* the next SCAN.  So no SCAN follows a cursor of 0 or a reached cap.
C21_ScanLoopProtocol ==
    [][(issued'["SCAN"] = issued["SCAN"] + 1) =>
          /\ pc = "scan"
          /\ last_cmd'.name = "SCAN"
          /\ IF issued["SCAN"] = 0
             THEN last_cmd'.cursor = 0
             ELSE /\ last_cmd.name = "SCAN"
                  /\ ~last_cmd.failed
                  /\ last_cmd'.cursor = last_cmd.next_cursor
                  /\ last_cmd.next_cursor /= 0
                  /\ Len(keys) < max_keys
                  /\ issued["SCAN"] < MAX_SCAN_ITERATIONS
          /\ ~last_cmd'.failed =>
                ((pc' = "scan") <=>
                    /\ last_cmd'.next_cursor /= 0
                    /\ Len(last_cmd'.fetched) < max_keys
                    /\ issued'["SCAN"] < MAX_SCAN_ITERATIONS)
          /\ last_cmd'.failed => pc' = "done"]_vars

\* A third SCAN sent with the cursor the second answer returned, the loop
\* still on: neither cursor 0, nor the cap, nor the ceiling has been met.
C21_Witness ==
    /\ pc = "scan"
    /\ issued["SCAN"] = 3
    /\ last_cmd.cursor = 2
    /\ last_cmd.next_cursor = 1
    /\ cursor = 1
    /\ Len(keys) < max_keys

\* C22: the keys scan_keys returns are the first min(effective cap, number
\* fetched) keys of the pages fetched, joined in the order fetched, nothing
\* reordered and no repeat removed: each page is appended whole to the keys
\* gathered, the list is cut to the cap on leaving the loop (to exactly the
\* cap when the pages overshoot it), and the count is the length of the list
\* returned.
C22_ScanResultIsPrefix ==
    [][(issued'["SCAN"] = issued["SCAN"] + 1 /\ ~last_cmd'.failed) =>
          LET fetched == last_cmd'.fetched
              n == Min(max_keys, Len(fetched))
          IN  /\ issued["SCAN"] = 0 => keys = <<>>
              /\ SubSeq(fetched, 1, Len(keys)) = keys
              /\ pc' = "scan" => keys' = fetched
              /\ pc' /= "scan" =>
                    /\ keys' = SubSeq(fetched, 1, n)
                    /\ Len(fetched) > max_keys => Len(keys') = max_keys
              /\ (pc' = "done" /\ op = "scan_keys") =>
                    /\ result'.ok
                    /\ result'.keys = SubSeq(fetched, 1, n)
                    /\ result'.count = Len(result'.keys)]_vars

\* Two pages of three keys in all against a cap of two: the first key, fetched
\* twice, is returned twice and the third key fetched is cut off.
C22_Witness ==
    /\ pc = "done"
    /\ op = "scan_keys"
    /\ max_keys = 2
    /\ issued["SCAN"] = 2
    /\ last_cmd.fetched = <<"k1", "k1", "k2">>
    /\ result.ok
    /\ result.keys = <<"k1", "k1">>
    /\ result.count = 2

\* C27: in each of the eleven operations that take a connection parameter
\* the connection is resolved before anything else: a call whose connection
\* does not resolve is over with the resolver's failure (ConnectionNotFound
\* carrying the name, or AmbiguousConnection), no entry chosen and no command
\* sent on any connection; for scan_keys and search_keys this holds of a
\* pattern with a null byte too, the resolver's failure being the one
\* returned.  A call that has sent a command has a resolved entry.
C27_ResolutionFirst ==
    (pc /= "idle" /\ op /= "list_connections") =>
        IF Resolvable
        THEN /\ entry \in 1..Len(connections)
             /\ ~FailedWith(MsgAmbiguous, "")
             /\ Failed => result.error.message[1] /= MsgNotFound
             /\ last_cmd.conn \in {0, entry}
        ELSE /\ pc = "done"
             /\ entry = 0
             /\ RoundTrips = 0
             /\ last_cmd = NoCmd
             /\ store \in CallStores
             /\ IF IsSome(params.connection)
                THEN /\ FailedWith(MsgNotFound, Unwrap(params.connection))
                     /\ result.error.code = "invalid_params"
                ELSE /\ FailedWith(MsgAmbiguous, "")
                     /\ result.error.code = "invalid_params"

\* A scan_keys on a registry of two entries, naming neither and carrying a
\* null byte in its pattern: ConnectionNotFound, nothing sent.
C27_Witness ==
    /\ pc = "done"
    /\ op = "scan_keys"
    /\ Len(connections) = 2
    /\ params.connection = Some("c")
    /\ IsSome(params.pattern)
    /\ HasNul(Unwrap(params.pattern))
    /\ FailedWith(MsgNotFound, "c")
    /\ RoundTrips = 0

\* The values of the shape get gives each type: a string; a list of strings
\* (list, set); a list of {member, score} records; a map from field to string.
ShapeOf(t) ==
    CASE t = "string" -> {"v"}
      [] t \in {"list", "set"} -> SeqsUpTo({"x", "y"}, 2)
      [] t = "zset" -> SeqsUpTo([member : {"m", "n"}, score : {1, 2}], 2)
      [] t = "hash" -> UNION {[D -> {"v", "w"}] : D \in SUBSET {<<102>>, <<103>>}}

\* C24: whatever another client does to the key before or between the two
\* round trips of get, the call looks the type up once and retries nothing;
\* its second command is the retrieval command of the type the lookup
\* reported; and it ends either in the store's failure or in a payload tagged
\* with that type whose value has the shape of that type, never the shape of
\* another.
C24_GetUnderWriter ==
    (op = "get") =>
        /\ issued["TYPE"] <= 1
        /\ RoundTrips <= 2
        /\ RoundTrips = 2 =>
              /\ pc = "done"
              /\ key_type \in KnownTypes
              /\ last_cmd.name = RetrievalOf[key_type].name
              /\ last_cmd.args = RetrievalOf[key_type].args
              /\ last_cmd.key = params.key
              /\ issued[last_cmd.name] = 1
              /\ IF last_cmd.failed
                 THEN Failed /\ result.error.message[1] = MsgRedis
                 ELSE /\ result.ok
                      /\ result.kind = "value"
                      /\ result.type = key_type
                      /\ result.value \in ShapeOf(key_type)
        /\ (pc = "done" /\ result.ok /\ result.kind = "value" /\ RoundTrips = 1) =>
              /\ key_type \notin KnownTypes
              /\ result.type = key_type
              /\ result.value = [type |-> key_type, note |-> "Unsupported type"]

\* A list deleted between TYPE and LRANGE: the payload is the empty list,
\* tagged list.
C24_Witness ==
    /\ pc = "done"
    /\ op = "get"
    /\ key_type = "list"
    /\ store[params.key] = Absent
    /\ RoundTrips = 2
    /\ last_cmd.name = "LRANGE"
    /\ result.ok
    /\ result.type = "list"
    /\ result.value = <<>>

\* What one scan in flight, with the locals f, keeps to: the keys gathered
\* below the cap while the loop is on and within it once left, a result no
\* longer than the cap, no more than MAX_SCAN_ITERATIONS SCANs, each counted,
\* and its cursor the one its own last answer returned.
ScanWithin(f) ==
    (f.op = "scan_keys" /\ f.pc \in {"scan", "done"} /\ f.entry /= 0) =>
        /\ f.pc = "scan" => Len(f.keys) < f.max_keys \/ f.issued["SCAN"] = 0
        /\ Len(f.keys) <= f.max_keys
        /\ f.result.ok => (Len(f.result.keys) <= f.max_keys /\ f.result.keys = f.keys)
        /\ f.issued["SCAN"] <= MAX_SCAN_ITERATIONS
        /\ f.iterations <= f.issued["SCAN"]
        /\ f.pc = "scan" => f.iterations = f.issued["SCAN"]
        /\ (f.issued["SCAN"] > 0 /\ ~f.last_cmd.failed) =>
              (f.cursor = f.last_cmd.next_cursor /\ f.last_cmd.name = "SCAN")

\* C25: of two scans in flight on one connection, their round trips
\* interleaved in any way, each has its cursor, its keys and its counter to
\* itself: a step is either the executor passing from one call to the other,
\* the locals of both left as they were, or a step of the running call, which
\* leaves the parked call's locals alone, sends the cursor its own last
\* answer returned (0 at first) and takes its new cursor, keys and counter
\* from its own page; and each stays within its cap and the ceiling.
C25_ScanStatePrivate ==
    /\ [](ScanWithin(frame) /\ ScanWithin(waiting))
    /\ [][\/ waiting' = frame /\ frame' = waiting
          \/ /\ waiting' = waiting
             /\ (issued'["SCAN"] = issued["SCAN"] + 1) =>
                   /\ last_cmd'.cursor =
                         (IF issued["SCAN"] = 0 THEN 0 ELSE last_cmd.next_cursor)
                   /\ ~last_cmd'.failed =>
                         /\ cursor' = last_cmd'.next_cursor
                         /\ iterations' = iterations + 1
                         /\ SubSeq(last_cmd'.fetched, 1, Len(keys)) = keys
                         /\ keys' = IF pc' = "scan" THEN last_cmd'.fetched
                                    ELSE truncate(last_cmd'.fetched, max_keys)
                   /\ last_cmd'.failed => UNCHANGED <<cursor, iterations, keys>>]_vars

\* Two scans in flight, each one page in and a second SCAN of the running one
\* answered: the running call sent the cursor 2 its first answer returned
\* and holds the key "k1"; the parked call waits with cursor 1 and the key
\* "k2".
C25_Witness ==
    /\ pc = "scan"
    /\ issued["SCAN"] = 2
    /\ last_cmd.cursor = 2
    /\ keys = <<"k1">>
    /\ waiting.pc = "scan"
    /\ waiting.op = "scan_keys"
    /\ waiting.issued["SCAN"] = 1
    /\ waiting.cursor = 1
    /\ waiting.keys = <<"k2">>

=============================================================================
